---- MODULE Spec2Model ----
(***************************************************************************)
(* The MCP client adapter of search-youtube-via-mcp/main.py: the cached    *)
(* session and its lock (get_or_create_session_id), the tool invoker with  *)
(* its retry loop (call_mcp_tool), and the endpoints that touch the cached *)
(* session (/status, /reset-session).  Each request-handling thread of the *)
(* Flask application is one element of Threads.                            *)
(***************************************************************************)
EXTENDS Integers, Sequences, FiniteSets, TLC

\* ---------------------------------------------------------------- bounds
\* Number of concurrent request-handling threads.
NThreads == 2
\* Number of requests (call_mcp_tool calls, /status requests) served in all.
MaxCalls == 3
\* Number of handshakes the server fails (a refused initialize, or a
\* notifications/initialized that raises).
MaxHandshakeFailures == 1
\* Largest max_retries argument of a call when one thread runs alone.
MaxRetriesArg == 4
\* Largest max_retries argument of a call when the threads run together.
MaxConcurrentRetries == 2

Threads == 1..NThreads

\* ------------------------------------------------------ program constants
\* _cached_session_id = None (and every falsy session value).
NoSession == 0
\* def call_mcp_tool(tool_name, parameters, max_retries=3)
DefaultMaxRetries == 3
\* elif error_code == -32602:  # Invalid parameters
InvalidParamsCode == -32602
\* time.sleep(0.5 * (retry + 1)), in milliseconds per attempt number.
BackoffStepMs == 500
\* "id": 2 of the tools/call request
ToolCallId == 2
\* PROTOCOL_VERSION = os.getenv('MCP_PROTOCOL_VERSION', '2024-11-05')
PROTOCOL_VERSION == "2024-11-05"

\* ------------------------------------------------------------------ texts
\* Texts are sequences of one-character strings, so that concatenation,
\* lower-casing and substring search are computed as the code computes them.

\* "MCP Server returned empty response (server may still be initializing)"
EmptyResponseText ==
  <<"M","C","P"," ","S","e","r","v","e","r"," ","r","e","t","u","r","n","e","d"," ","e","m","p","t","y"," ","r","e","s","p","o","n","s","e"," ","(","s","e","r","v","e","r"," ","m","a","y"," ","s","t","i","l","l"," ","b","e"," ","i","n","i","t","i","a","l","i","z","i","n","g",")">>

\* "MCP Server error: Invalid response format (neither JSON nor SSE)"
InvalidFormatText ==
  <<"M","C","P"," ","S","e","r","v","e","r"," ","e","r","r","o","r",":"," ","I","n","v","a","l","i","d"," ","r","e","s","p","o","n","s","e"," ","f","o","r","m","a","t"," ","(","n","e","i","t","h","e","r"," ","J","S","O","N"," ","n","o","r"," ","S","S","E",")">>

\* "MCP Server is still initializing. Please try again in a moment."
StillInitializingText ==
  <<"M","C","P"," ","S","e","r","v","e","r"," ","i","s"," ","s","t","i","l","l"," ","i","n","i","t","i","a","l","i","z","i","n","g","."," ","P","l","e","a","s","e"," ","t","r","y"," ","a","g","a","i","n"," ","i","n"," ","a"," ","m","o","m","e","n","t",".">>

\* "MCP Parameter Error: "
ParameterErrorPrefix ==
  <<"M","C","P"," ","P","a","r","a","m","e","t","e","r"," ","E","r","r","o","r",":"," ">>

\* ". Check the tool parameters and types."
ParameterErrorSuffix ==
  <<"."," ","C","h","e","c","k"," ","t","h","e"," ","t","o","o","l"," ","p","a","r","a","m","e","t","e","r","s"," ","a","n","d"," ","t","y","p","e","s",".">>

\* "MCP Error: "
McpErrorPrefix ==
  <<"M","C","P"," ","E","r","r","o","r",":"," ">>

\* "No content returned from MCP server"
NoContentText ==
  <<"N","o"," ","c","o","n","t","e","n","t"," ","r","e","t","u","r","n","e","d"," ","f","r","o","m"," ","M","C","P"," ","s","e","r","v","e","r">>

\* "MCP Server error: "
ServerErrorPrefix ==
  <<"M","C","P"," ","S","e","r","v","e","r"," ","e","r","r","o","r",":"," ">>

\* "Unexpected error: "
UnexpectedErrorPrefix ==
  <<"U","n","e","x","p","e","c","t","e","d"," ","e","r","r","o","r",":"," ">>

\* "Failed to connect to MCP server after multiple retries"
FailedToConnectText ==
  <<"F","a","i","l","e","d"," ","t","o"," ","c","o","n","n","e","c","t"," ","t","o"," ","M","C","P"," ","s","e","r","v","e","r"," ","a","f","t","e","r"," ","m","u","l","t","i","p","l","e"," ","r","e","t","r","i","e","s">>

\* "Unknown error"
UnknownErrorText ==
  <<"U","n","k","n","o","w","n"," ","e","r","r","o","r">>

\* "Failed to parse MCP response: "
ParseFailedPrefix ==
  <<"F","a","i","l","e","d"," ","t","o"," ","p","a","r","s","e"," ","M","C","P"," ","r","e","s","p","o","n","s","e",":"," ">>

\* "initialization"
InitializationNeedle ==
  <<"i","n","i","t","i","a","l","i","z","a","t","i","o","n">>

\* "before initialization"
BeforeInitializationNeedle ==
  <<"b","e","f","o","r","e"," ","i","n","i","t","i","a","l","i","z","a","t","i","o","n">>

\* "request before initialization"
MsgBeforeInit ==
  <<"r","e","q","u","e","s","t"," ","b","e","f","o","r","e"," ","i","n","i","t","i","a","l","i","z","a","t","i","o","n">>

\* "INITIALIZATION PENDING"
MsgUpperInit ==
  <<"I","N","I","T","I","A","L","I","Z","A","T","I","O","N"," ","P","E","N","D","I","N","G">>

\* "Initialization"
MsgMixedInit ==
  <<"I","n","i","t","i","a","l","i","z","a","t","i","o","n">>

\* "Invalid params"
MsgInvalidParams ==
  <<"I","n","v","a","l","i","d"," ","p","a","r","a","m","s">>

\* "not initialized"
MsgInitOnly ==
  <<"n","o","t"," ","i","n","i","t","i","a","l","i","z","e","d">>

\* "Read timed out"
TimeoutText ==
  <<"R","e","a","d"," ","t","i","m","e","d"," ","o","u","t">>

\* "500 Server Error"
Http500Text ==
  <<"5","0","0"," ","S","e","r","v","e","r"," ","E","r","r","o","r">>

\* "not an object"
NotAnObjectText ==
  <<"n","o","t"," ","a","n"," ","o","b","j","e","c","t">>

\* "bad query"
BadQueryText ==
  <<"b","a","d"," ","q","u","e","r","y">>

\* ----------------------------------------------------------- text helpers
UpperLetters ==
  <<"A","B","C","D","E","F","G","H","I","J","K","L","M",
    "N","O","P","Q","R","S","T","U","V","W","X","Y","Z">>

LowerLetters ==
  <<"a","b","c","d","e","f","g","h","i","j","k","l","m",
    "n","o","p","q","r","s","t","u","v","w","x","y","z">>

\* str.lower() on one character.
LowerChar(c) ==
  IF \E i \in 1..Len(UpperLetters) : UpperLetters[i] = c
  THEN LowerLetters[CHOOSE i \in 1..Len(UpperLetters) : UpperLetters[i] = c]
  ELSE c

\* str.lower()
Lower(s) == [i \in 1..Len(s) |-> LowerChar(s[i])]

\* needle in s
Contains(needle, s) ==
  \E i \in 0..(Len(s) - Len(needle)) : SubSeq(s, i + 1, i + Len(needle)) = needle

\* Variant: the test without .lower().
IsInitializationErrorCaseSensitive(error_msg) ==
  \/ Contains(InitializationNeedle, error_msg)
  \/ Contains(BeforeInitializationNeedle, error_msg)

\* "initialization" in error_msg.lower() or "before initialization" in error_msg.lower()
IsInitializationError(error_msg) ==
  \/ Contains(InitializationNeedle, Lower(error_msg))
  \/ Contains(BeforeInitializationNeedle, Lower(error_msg))

\* ------------------------------------------------- what the server answers
\* The answer to a tools/call POST, as call_mcp_tool sees it:
\*   transport    requests.post raises a RequestException (connection, timeout)
\*   httperror    raise_for_status raises HTTPError (a RequestException)
\*   empty        the body is blank
\*   undecodable  the body is neither JSON nor SSE
\*   malformed    the body decodes to a value the code cannot index (any other exception)
\*   rpcerror     the decoded object has an "error" member
\*   nocontent    no error, and result.content is missing, empty or no list
\*   content      result.content[0].text is handed to parse_mcp_response
ToolOutcome(kind, code, hasmsg, text, payload) ==
  [kind |-> kind, code |-> code, hasmsg |-> hasmsg, text |-> text, payload |-> payload]

NoOutcome == ToolOutcome("none", 0, FALSE, <<>>, "")

\* The error codes drawn: -32602, and -32603 (internal error) for any other.
RpcCodes == {InvalidParamsCode, -32603}

OtherErrorCode == CHOOSE c \in RpcCodes : c # InvalidParamsCode

RpcMessages == {MsgBeforeInit, MsgUpperInit, MsgMixedInit, MsgInvalidParams, MsgInitOnly}

RpcErrors ==
  {ToolOutcome("rpcerror", c, TRUE, m, "") : c \in RpcCodes, m \in RpcMessages}
    \cup {ToolOutcome("rpcerror", c, FALSE, <<>>, "") : c \in RpcCodes}

\* The text member of the first content item, by the path parse_mcp_response
\* takes on it.
Payloads == {"structured", "legacy", "legacy_error", "nontext"}

ToolOutcomes ==
  {ToolOutcome("transport", 0, FALSE, TimeoutText, ""),
   ToolOutcome("httperror", 0, FALSE, Http500Text, ""),
   ToolOutcome("empty", 0, FALSE, <<>>, ""),
   ToolOutcome("undecodable", 0, FALSE, <<>>, ""),
   ToolOutcome("malformed", 0, FALSE, NotAnObjectText, ""),
   ToolOutcome("nocontent", 0, FALSE, <<>>, "")}
    \cup RpcErrors
    \cup {ToolOutcome("content", 0, FALSE, <<>>, p) : p \in Payloads}

\* The answer to the initialize POST:
\*   ok         status 200, an mcp-session-id header, a body that decodes without error
\*   nosid      no mcp-session-id header
\*   status     a status other than 200
\*   badbody    the body decodes to nothing
\*   rpcerror   the body has an "error" member
\*   exception  the POST raises, or the test of the body does
InitOutcomes == {"ok", "nosid", "status", "badbody", "rpcerror", "exception"}

\* The answer to the notifications/initialized POST.
NotifOutcomes == {"2xx", "non2xx", "exception"}

\* max_retries as callers pass it (range() of a value <= 0 is empty).
RetryArgs == (0 - 1)..MaxRetriesArg

\* With the threads running together: one answer for each way an attempt ends
\* (exception, retryable error, invalidating error, other error, result).
ConcurrentOutcomes ==
  {ToolOutcome("transport", 0, FALSE, TimeoutText, ""),
   ToolOutcome("rpcerror", InvalidParamsCode, TRUE, MsgBeforeInit, ""),
   ToolOutcome("rpcerror", InvalidParamsCode, TRUE, MsgInvalidParams, ""),
   ToolOutcome("rpcerror", OtherErrorCode, TRUE, MsgInvalidParams, ""),
   ToolOutcome("content", 0, FALSE, <<>>, "structured")}

ConcurrentRetryArgs == 1..MaxConcurrentRetries

\* ----------------------------------------------------------------- results
ErrorResult(text) == [kind |-> "error", error |-> text]

CanonicalResult == [kind |-> "canonical", error |-> <<>>]

StatusResult == [kind |-> "status", error |-> <<>>]

NoResult == [kind |-> "none", error |-> <<>>]

\* parse_mcp_response never raises: its outer try returns an error object.
ParseResultOf(payload) ==
  CASE payload = "legacy_error" -> ErrorResult(BadQueryText)
    [] payload = "nontext" -> ErrorResult(ParseFailedPrefix \o NotAnObjectText)
    [] OTHER -> CanonicalResult

\* error_msg = mcp_response['error'].get('message', 'Unknown error')
ErrorMessage(o) == IF o.hasmsg THEN o.text ELSE UnknownErrorText

\* Variant: a delay that doubles with every attempt.
BackoffMsExponential(retry_) == BackoffStepMs * (2 ^ retry_)

\* time.sleep(0.5 * (retry + 1)), in milliseconds
BackoffMs(retry_) == BackoffStepMs * (retry_ + 1)

\* Variant: the first failure is kept, later ones do not replace it.
LastErrorAfterKeepingFirst(le, o) ==
  IF le # <<>>
  THEN le
  ELSE CASE o.kind \in {"transport", "httperror"} -> ServerErrorPrefix \o o.text
         [] o.kind = "malformed" -> UnexpectedErrorPrefix \o o.text
         [] OTHER -> le

\* last_error after the except clauses of one attempt
LastErrorAfter(le, o) ==
  CASE o.kind \in {"transport", "httperror"} -> ServerErrorPrefix \o o.text
    [] o.kind = "malformed" -> UnexpectedErrorPrefix \o o.text
    [] OTHER -> le

\* return {"error": last_error or "Failed to connect to MCP server after multiple retries"}
FinalResult(le) == ErrorResult(IF le = <<>> THEN FailedToConnectText ELSE le)

\* Variant: one attempt too few is taken to remain.
AttemptsRemainOffByOne(retry_, max_retries_) == retry_ < max_retries_ - 2

\* Variant: max_retries counts the retries, not the attempts.
AttemptsRemainInclusive(retry_, max_retries_) == retry_ < max_retries_

\* if retry < max_retries - 1
AttemptsRemain(retry_, max_retries_) == retry_ < max_retries_ - 1

\* What one attempt of call_mcp_tool does with the answer o:
\*   act        "sleep" (time.sleep, then continue), "return" or "raise"
\*   result     the value returned when act = "return"
\*   invalidate whether _cached_session_id is set to None
Sleeps == [act |-> "sleep", result |-> NoResult, invalidate |-> FALSE]

Returns(res) == [act |-> "return", result |-> res, invalidate |-> FALSE]

ReturnsInvalidating(res) == [act |-> "return", result |-> res, invalidate |-> TRUE]

\* An exception that leaves call_mcp_tool.
Raises == [act |-> "raise", result |-> NoResult, invalidate |-> FALSE]

\* The messages of the answers drawn, and those among them that line 210
\* takes for an initialization error (computed once, for all the attempts).
ErrorMessages == {ErrorMessage(o) : o \in RpcErrors}

InitializationErrors == {m \in ErrorMessages : IsInitializationError(m)}

\* Variant: the -32602 branch does not reset the session cache.
ClassifyErrorKeepingSession(o, more) ==
  LET error_msg == ErrorMessage(o) IN
  IF error_msg \in InitializationErrors
  THEN IF more THEN Sleeps ELSE Returns(ErrorResult(StillInitializingText))
  ELSE IF o.code = InvalidParamsCode
       THEN Returns(
              ErrorResult(ParameterErrorPrefix \o error_msg \o ParameterErrorSuffix))
       ELSE Returns(ErrorResult(McpErrorPrefix \o error_msg))

\* Variant: every protocol error is retried while attempts remain.
ClassifyErrorRetryingAll(o, more) ==
  LET error_msg == ErrorMessage(o) IN
  IF more
  THEN Sleeps
  ELSE IF error_msg \in InitializationErrors
       THEN Returns(ErrorResult(StillInitializingText))
       ELSE IF o.code = InvalidParamsCode
            THEN ReturnsInvalidating(
                   ErrorResult(ParameterErrorPrefix \o error_msg \o ParameterErrorSuffix))
            ELSE Returns(ErrorResult(McpErrorPrefix \o error_msg))

\* Variant: every protocol error that is not retried resets the session cache.
ClassifyErrorResettingAlways(o, more) ==
  LET error_msg == ErrorMessage(o) IN
  IF error_msg \in InitializationErrors
  THEN IF more THEN Sleeps ELSE Returns(ErrorResult(StillInitializingText))
  ELSE IF o.code = InvalidParamsCode
       THEN ReturnsInvalidating(
              ErrorResult(ParameterErrorPrefix \o error_msg \o ParameterErrorSuffix))
       ELSE ReturnsInvalidating(ErrorResult(McpErrorPrefix \o error_msg))

\* Variant: the code is tested before the message.
ClassifyErrorCodeFirst(o, more) ==
  LET error_msg == ErrorMessage(o) IN
  IF o.code = InvalidParamsCode
  THEN ReturnsInvalidating(
         ErrorResult(ParameterErrorPrefix \o error_msg \o ParameterErrorSuffix))
  ELSE IF error_msg \in InitializationErrors
       THEN IF more THEN Sleeps ELSE Returns(ErrorResult(StillInitializingText))
       ELSE Returns(ErrorResult(McpErrorPrefix \o error_msg))

\* if "error" in mcp_response: the three branches
ClassifyError(o, more) ==
  LET error_msg == ErrorMessage(o) IN
  IF error_msg \in InitializationErrors
  THEN IF more THEN Sleeps ELSE Returns(ErrorResult(StillInitializingText))
  ELSE IF o.code = InvalidParamsCode
       THEN ReturnsInvalidating(
              ErrorResult(ParameterErrorPrefix \o error_msg \o ParameterErrorSuffix))
       ELSE Returns(ErrorResult(McpErrorPrefix \o error_msg))

\* Variant: only RequestException is caught.
ExceptHandlersRequestsOnly(o, more, le) ==
  IF o.kind = "malformed"
  THEN Raises
  ELSE IF more THEN Sleeps ELSE Returns(FinalResult(LastErrorAfter(le, o)))

\* except requests.exceptions.RequestException / except Exception: both set
\* last_error, and sleep and continue while attempts remain; on the last attempt
\* the loop ends and the final return statement is reached.
ExceptHandlers(o, more, le) ==
  IF more THEN Sleeps ELSE Returns(FinalResult(LastErrorAfter(le, o)))

\* Variant: an HTTP error status ends the call at once.
AttemptStepHttpErrorFinal(o, retry_, max_retries_, le) ==
  LET more == AttemptsRemain(retry_, max_retries_) IN
  CASE o.kind = "empty" ->
         IF more THEN Sleeps ELSE Returns(ErrorResult(EmptyResponseText))
    [] o.kind = "undecodable" ->
         IF more THEN Sleeps ELSE Returns(ErrorResult(InvalidFormatText))
    [] o.kind = "rpcerror" -> ClassifyError(o, more)
    [] o.kind = "nocontent" -> Returns(ErrorResult(NoContentText))
    [] o.kind = "content" -> Returns(ParseResultOf(o.payload))
    [] o.kind = "httperror" -> Returns(FinalResult(LastErrorAfter(le, o)))
    [] OTHER -> ExceptHandlers(o, more, le)

\* One attempt's answer, by the branch of the loop body that handles it.
AttemptStep(o, retry_, max_retries_, le) ==
  LET more == AttemptsRemain(retry_, max_retries_) IN
  CASE o.kind = "empty" ->
         IF more THEN Sleeps ELSE Returns(ErrorResult(EmptyResponseText))
    [] o.kind = "undecodable" ->
         IF more THEN Sleeps ELSE Returns(ErrorResult(InvalidFormatText))
    [] o.kind = "rpcerror" -> ClassifyError(o, more)
    [] o.kind = "nocontent" -> Returns(ErrorResult(NoContentText))
    [] o.kind = "content" -> Returns(ParseResultOf(o.payload))
    [] OTHER -> ExceptHandlers(o, more, le)

\* ----------------------------------------- call_mcp_tool: the request
\* No request built yet.
NoHeaders == [h \in {} |-> ""]

NoRequest == [id |-> 0, method |-> "none"]

\* The header names of the tools/call: Content-Type, Accept and
\* mcp-protocol-version always, mcp-session-id under `if session_id`.
HeaderNames(session_id_) ==
  {"Content-Type", "Accept", "mcp-protocol-version"}
    \cup (IF session_id_ # NoSession THEN {"mcp-session-id"} ELSE {})

\* Variant: the session header is attached whatever session_id is.
ToolHeadersAlwaysSession(session_id_) ==
  [h \in {"Content-Type", "Accept", "mcp-protocol-version", "mcp-session-id"} |->
     CASE h = "Content-Type" -> "application/json"
       [] h = "Accept" -> "application/json, text/event-stream"
       [] h = "mcp-protocol-version" -> PROTOCOL_VERSION
       [] h = "mcp-session-id" -> session_id_]

\* headers = {...}; if session_id: headers["mcp-session-id"] = session_id
ToolHeaders(session_id_) ==
  [h \in HeaderNames(session_id_) |->
     CASE h = "Content-Type" -> "application/json"
       [] h = "Accept" -> "application/json, text/event-stream"
       [] h = "mcp-protocol-version" -> PROTOCOL_VERSION
       [] h = "mcp-session-id" -> session_id_]

\* mcp_request = {"jsonrpc": "2.0", "id": 2, "method": "tools/call", ...}
ToolRequest == [id |-> ToolCallId, method |-> "tools/call"]

\* ------------------------------------------------------- response decoder
\* A JSON value is written as its compact text (no space outside strings), a
\* sequence of characters: json.loads turns a text into that form, json.dumps
\* writes it back with ", " and ": " as separators.

Whitespace == {" ", "\n", "\r", "\t"}

DigitChars == {"0", "1", "2", "3", "4", "5", "6", "7", "8", "9"}

Quote == "\""

\* Python's None, which is also what json.loads gives for null.
NoneValue == <<"n","u","l","l">>

\* The JSON values drawn.

\* null
JsonNull == <<"n","u","l","l">>

\* true
JsonTrue == <<"t","r","u","e">>

\* false
JsonFalse == <<"f","a","l","s","e">>

\* 0
JsonZero == <<"0">>

\* 10
JsonTen == <<"1","0">>

\* ""
JsonEmptyString == <<"\"","\"">>

\* "data: 1"
JsonDataString == <<"\"","d","a","t","a",":"," ","1","\"">>

\* []
JsonEmptyArray == <<"[","]">>

\* [1,"a",null]
JsonArray == <<"[","1",",","\"","a","\"",",","n","u","l","l","]">>

\* {}
JsonEmptyObject == <<"{","}">>

\* {"result":{"content":[]}}
JsonResultObject == <<"{","\"","r","e","s","u","l","t","\"",":","{","\"","c","o","n","t","e","n","t","\"",":","[","]","}","}">>

\* {"error":{"code":7,"message":"no"}}
JsonErrorObject == <<"{","\"","e","r","r","o","r","\"",":","{","\"","c","o","d","e","\"",":","7",",","\"","m","e","s","s","a","g","e","\"",":","\"","n","o","\"","}","}">>

JsonValues ==
  {JsonNull, JsonTrue, JsonFalse, JsonZero, JsonTen, JsonEmptyString,
   JsonDataString, JsonEmptyArray, JsonArray, JsonEmptyObject, JsonResultObject, JsonErrorObject}

\* "data: "
DataPrefix == <<"d","a","t","a",":"," ">>

\* ---- Python's string methods
\* str.lstrip()
RECURSIVE LStrip(_)
LStrip(s) == IF s # <<>> /\ Head(s) \in Whitespace THEN LStrip(Tail(s)) ELSE s

\* str.rstrip()
RECURSIVE RStrip(_)
RStrip(s) ==
  IF s # <<>> /\ s[Len(s)] \in Whitespace THEN RStrip(SubSeq(s, 1, Len(s) - 1)) ELSE s

\* str.strip()
Strip(s) == RStrip(LStrip(s))

\* str.split(sep), for a separator of one character
RECURSIVE Split(_, _)
Split(s, sep) ==
  IF \E i \in 1..Len(s) : s[i] = sep
  THEN LET i == CHOOSE k \in 1..Len(s) : s[k] = sep /\ \A j \in 1..(k - 1) : s[j] # sep
       IN <<SubSeq(s, 1, i - 1)>> \o Split(SubSeq(s, i + 1, Len(s)), sep)
  ELSE <<s>>

\* str.startswith(prefix)
StartsWith(s, prefix) == Len(s) >= Len(prefix) /\ SubSeq(s, 1, Len(prefix)) = prefix

\* ---- json.loads, for the forms of JSON text drawn: null, true, false,
\* unsigned integers, strings without escapes, arrays and objects
\* A parse step gives [ok, val, next]: whether a value was read, the value,
\* and the position after it.
ParseFailure == [ok |-> FALSE, val |-> <<>>, next |-> 0]

Parsed(val, next) == [ok |-> TRUE, val |-> val, next |-> next]

RECURSIVE SkipWhitespace(_, _)
SkipWhitespace(s, i) ==
  IF i <= Len(s) /\ s[i] \in Whitespace THEN SkipWhitespace(s, i + 1) ELSE i

ParseLiteral(s, i, word) ==
  IF i + Len(word) - 1 <= Len(s) /\ SubSeq(s, i, i + Len(word) - 1) = word
  THEN Parsed(word, i + Len(word))
  ELSE ParseFailure

RECURSIVE DigitsEnd(_, _)
DigitsEnd(s, i) == IF i <= Len(s) /\ s[i] \in DigitChars THEN DigitsEnd(s, i + 1) ELSE i

\* An integer: a run of digits without a leading zero.
ParseNumber(s, i) ==
  LET j == DigitsEnd(s, i) IN
  IF j > i /\ (j = i + 1 \/ s[i] # "0") THEN Parsed(SubSeq(s, i, j - 1), j) ELSE ParseFailure

\* The position of the closing quote of the string whose content starts at i,
\* 0 when the text ends, or a control character or a backslash comes, first.
RECURSIVE StringEnd(_, _)
StringEnd(s, i) ==
  IF i > Len(s) \/ s[i] \in {"\n", "\r", "\t", "\\"}
  THEN 0
  ELSE IF s[i] = Quote THEN i ELSE StringEnd(s, i + 1)

ParseString(s, i) ==
  LET j == StringEnd(s, i + 1) IN
  IF j = 0 THEN ParseFailure ELSE Parsed(SubSeq(s, i, j), j + 1)

RECURSIVE ParseValue(_, _)
RECURSIVE ParseElements(_, _, _)
RECURSIVE ParseMembers(_, _, _)
ParseValue(s, start) ==
  LET i == SkipWhitespace(s, start) IN
  IF i > Len(s)
  THEN ParseFailure
  ELSE CASE s[i] = "n" -> ParseLiteral(s, i, JsonNull)
         [] s[i] = "t" -> ParseLiteral(s, i, JsonTrue)
         [] s[i] = "f" -> ParseLiteral(s, i, JsonFalse)
         [] s[i] \in DigitChars -> ParseNumber(s, i)
         [] s[i] = Quote -> ParseString(s, i)
         [] s[i] = "[" ->
              LET j == SkipWhitespace(s, i + 1) IN
              IF j <= Len(s) /\ s[j] = "]"
              THEN Parsed(JsonEmptyArray, j + 1)
              ELSE ParseElements(s, i + 1, <<"[">>)
         [] s[i] = "{" ->
              LET j == SkipWhitespace(s, i + 1) IN
              IF j <= Len(s) /\ s[j] = "}"
              THEN Parsed(JsonEmptyObject, j + 1)
              ELSE ParseMembers(s, i + 1, <<"{">>)
         [] OTHER -> ParseFailure

\* The elements of an array from position i on; acc is the text read so far.
ParseElements(s, i, acc) ==
  LET v == ParseValue(s, i) IN
  IF ~v.ok
  THEN ParseFailure
  ELSE LET j == SkipWhitespace(s, v.next) IN
       IF j > Len(s)
       THEN ParseFailure
       ELSE CASE s[j] = "," -> ParseElements(s, j + 1, acc \o v.val \o <<",">>)
              [] s[j] = "]" -> Parsed(acc \o v.val \o <<"]">>, j + 1)
              [] OTHER -> ParseFailure

\* The members of an object from position i on.
ParseMembers(s, i, acc) ==
  LET k == SkipWhitespace(s, i) IN
  IF k > Len(s) \/ s[k] # Quote
  THEN ParseFailure
  ELSE LET key == ParseString(s, k) IN
       IF ~key.ok
       THEN ParseFailure
       ELSE LET c == SkipWhitespace(s, key.next) IN
            IF c > Len(s) \/ s[c] # ":"
            THEN ParseFailure
            ELSE LET v == ParseValue(s, c + 1) IN
                 IF ~v.ok
                 THEN ParseFailure
                 ELSE LET j == SkipWhitespace(s, v.next)
                          read == acc \o key.val \o <<":">> \o v.val
                      IN IF j > Len(s)
                         THEN ParseFailure
                         ELSE CASE s[j] = "," -> ParseMembers(s, j + 1, read \o <<",">>)
                                [] s[j] = "}" -> Parsed(read \o <<"}">>, j + 1)
                                [] OTHER -> ParseFailure

\* json.loads(s): [ok, val]; not ok stands for json.JSONDecodeError.
json_loads(s) ==
  LET v == ParseValue(s, 1) IN
  IF v.ok /\ SkipWhitespace(s, v.next) > Len(s)
  THEN [ok |-> TRUE, val |-> v.val]
  ELSE [ok |-> FALSE, val |-> <<>>]

\* json.dumps(obj), with its default separators ", " and ": "
RECURSIVE DumpsFrom(_, _, _)
DumpsFrom(v, i, inString) ==
  IF i > Len(v)
  THEN <<>>
  ELSE CASE v[i] = Quote -> <<v[i]>> \o DumpsFrom(v, i + 1, ~inString)
         [] ~inString /\ v[i] \in {",", ":"} -> <<v[i], " ">> \o DumpsFrom(v, i + 1, inString)
         [] OTHER -> <<v[i]>> \o DumpsFrom(v, i + 1, inString)

json_dumps(obj) == DumpsFrom(obj, 1, FALSE)

\* ---- parse_sse_response
\* lines = response_text.strip().split('\n'), each line stripped as the loop does
StrippedLines(response_text) ==
  LET lines == Split(Strip(response_text), "\n") IN
  [i \in 1..Len(lines) |-> Strip(lines[i])]

\* Variant: the last data line is taken (the loop without its break).
DataContentLast(lines) ==
  LET hits == {i \in 1..Len(lines) : StartsWith(lines[i], DataPrefix)} IN
  IF hits = {}
  THEN <<>>
  ELSE LET i == CHOOSE k \in hits : \A j \in hits : j <= k
       IN SubSeq(lines[i], Len(DataPrefix) + 1, Len(lines[i]))

\* data_content after the loop: line[6:] of the first line that starts with
\* 'data: ', or <<>> (None) when there is none
DataContent(lines) ==
  LET hits == {i \in 1..Len(lines) : StartsWith(lines[i], DataPrefix)} IN
  IF hits = {}
  THEN <<>>
  ELSE LET i == CHOOSE k \in hits : \A j \in hits : k <= j
       IN SubSeq(lines[i], Len(DataPrefix) + 1, Len(lines[i]))

\* parse_sse_response(response_text): the parsed data, or None
parse_sse_response(response_text) ==
  LET data_content == DataContent(StrippedLines(response_text)) IN
  IF data_content # <<>>
  THEN LET parsed == json_loads(data_content) IN
       IF parsed.ok THEN parsed.val ELSE NoneValue
  ELSE NoneValue

\* ---- the bodies drawn for the decoder
\* "not json at all"
NotJsonText == <<"n","o","t"," ","j","s","o","n"," ","a","t"," ","a","l","l">>

\* {"result":   (a JSON text cut short)
TruncatedJsonText == <<"{","\"","r","e","s","u","l","t","\"",":">>

\* "event: message"
EventLine == <<"e","v","e","n","t",":"," ","m","e","s","s","a","g","e">>

\* "data:"
BareDataText == <<"d","a","t","a",":">>

\* One SSE event: "data: <text>" and a blank line.
SseBody(text) == DataPrefix \o text \o <<"\n", "\n">>

\* The same after an "event: message" line.
EventBody(text) == EventLine \o <<"\n">> \o SseBody(text)

\* The same with CR LF line ends.
CrLfBody(text) == DataPrefix \o text \o <<"\r", "\n", "\r", "\n">>

\* The same, indented.
IndentedBody(text) == <<" ", " ">> \o SseBody(text)

\* Two data lines, one after the other.
TwoEventBody(first, second) ==
  DataPrefix \o first \o <<"\n">> \o DataPrefix \o second \o <<"\n", "\n">>

\* JSON text with whitespace around it.
PaddedBody(text) == <<" ">> \o text \o <<"\n">>

\* What follows "data: " on a line: the JSON text of a value, or no JSON text.
BadRemainders == {TruncatedJsonText, NotJsonText, <<>>, <<" ">>}

Remainders == {json_dumps(v) : v \in JsonValues} \cup BadRemainders

FirstRemainders ==
  BadRemainders \cup {json_dumps(JsonZero), json_dumps(JsonNull), json_dumps(JsonErrorObject)}

SecondRemainders == {json_dumps(JsonTen), json_dumps(JsonResultObject), TruncatedJsonText}

Bodies ==
  {json_dumps(v) : v \in JsonValues}
    \cup {PaddedBody(json_dumps(v)) : v \in JsonValues}
    \cup {SseBody(r) : r \in Remainders}
    \cup {EventBody(r) : r \in Remainders}
    \cup {CrLfBody(r) : r \in Remainders}
    \cup {IndentedBody(r) : r \in Remainders}
    \cup {TwoEventBody(a, b) : a \in FirstRemainders, b \in SecondRemainders}
    \cup {NotJsonText, TruncatedJsonText, BareDataText, EventLine, <<>>}

\* mcp_response while the body is being decoded:
\*   pending   nothing tried yet
\*   not_json  response.json() raised json.JSONDecodeError
\*   decoded   mcp_response holds a value
\*   failed    parse_sse_response returned None (the branch of line 190)
Decoding(state, value) == [state |-> state, value |-> value]

\* --------------------------------------------------- response normalizer
\* The names json_data is read by (lines 276-322).

\* "videos"
VideosKey == <<"v","i","d","e","o","s">>

\* "channels"
ChannelsKey == <<"c","h","a","n","n","e","l","s">>

\* "playlists"
PlaylistsKey == <<"p","l","a","y","l","i","s","t","s">>

\* "query"
QueryKey == <<"q","u","e","r","y">>

\* "total_results"
TotalResultsKey == <<"t","o","t","a","l","_","r","e","s","u","l","t","s">>

\* "title"
TitleKey == <<"t","i","t","l","e">>

\* "channel"
ChannelKey == <<"c","h","a","n","n","e","l">>

\* "views"
ViewsKey == <<"v","i","e","w","s">>

\* "likes"
LikesKey == <<"l","i","k","e","s">>

\* "published"
PublishedKey == <<"p","u","b","l","i","s","h","e","d">>

\* "url"
UrlKey == <<"u","r","l">>

\* "description"
DescriptionKey == <<"d","e","s","c","r","i","p","t","i","o","n">>

\* "video_id"
VideoIdKey == <<"v","i","d","e","o","_","i","d">>

\* "thumbnail"
ThumbnailKey == <<"t","h","u","m","b","n","a","i","l">>

\* "subscribers"
SubscribersKey == <<"s","u","b","s","c","r","i","b","e","r","s">>

\* "channel_id"
ChannelIdKey == <<"c","h","a","n","n","e","l","_","i","d">>

\* "playlist_id"
PlaylistIdKey == <<"p","l","a","y","l","i","s","t","_","i","d">>

\* "error"
ErrorKey == <<"e","r","r","o","r">>

\* The texts the legacy lines are recognised by (lines 366-418, 457-463).

\* "VIDEOS:"
VideosHeader == <<"V","I","D","E","O","S",":">>

\* "CHANNELS:"
ChannelsHeader == <<"C","H","A","N","N","E","L","S",":">>

\* "PLAYLISTS:"
PlaylistsHeader == <<"P","L","A","Y","L","I","S","T","S",":">>

\* "SUMMARY:"
SummaryHeader == <<"S","U","M","M","A","R","Y",":">>

\* "SUCCESS:"
SuccessHeader == <<"S","U","C","C","E","S","S",":">>

\* "ERROR:"
ErrorHeader == <<"E","R","R","O","R",":">>

\* "Found"
FoundWord == <<"F","o","u","n","d">>

\* "results"
ResultsWord == <<"r","e","s","u","l","t","s">>

\* "Videos:"
VideosLabel == <<"V","i","d","e","o","s",":">>

\* "Channel:"
ChannelLabel == <<"C","h","a","n","n","e","l",":">>

\* "URL:"
UrlLabel == <<"U","R","L",":">>

\* "v="
VideoIdMark == <<"v","=">>

\* "list="
PlaylistIdMark == <<"l","i","s","t","=">>

\* "search query"
SearchQueryText == <<"s","e","a","r","c","h"," ","q","u","e","r","y">>

\* The bullet character U+2022, one character of the text.
Bullet == "\\u2022"

\* The two characters U+00E2 U+00A2 the code also takes for a bullet.
MojibakeA == "\\xe2"

MojibakeB == "\\xa2"

Mojibake == <<MojibakeA, MojibakeB>>

\* The tools of the server; any other name is served as search_youtube_all.
ToolNames ==
  {"search_youtube_videos", "search_youtube_channels", "search_youtube_playlists",
   "search_youtube_all"}

\* ---- more of Python's string methods
\* s.find(sub) + 1: the first position sub starts at, 0 when there is none
Find(s, sub) ==
  LET hits == {i \in 1..(Len(s) - Len(sub) + 1) : SubSeq(s, i, i + Len(sub) - 1) = sub}
  IN IF hits = {} THEN 0 ELSE CHOOSE i \in hits : \A j \in hits : i <= j

\* str.split(sep), for a separator of any length
RECURSIVE SplitOn(_, _)
SplitOn(s, sep) ==
  LET i == Find(s, sep) IN
  IF i = 0 THEN <<s>>
  ELSE <<SubSeq(s, 1, i - 1)>> \o SplitOn(SubSeq(s, i + Len(sep), Len(s)), sep)

\* str.replace(old, '')
Replace(s, old) ==
  LET parts == SplitOn(s, old)
      Join[k \in 0..Len(parts)] == IF k = 0 THEN <<>> ELSE Join[k - 1] \o parts[k]
  IN Join[Len(parts)]

\* str.split(): the words between runs of whitespace
RECURSIVE SplitWords(_)
SplitWords(s) ==
  LET t == LStrip(s) IN
  IF t = <<>> THEN <<>>
  ELSE LET ends == {i \in 1..Len(t) : t[i] \in Whitespace}
           n == IF ends = {} THEN Len(t) + 1 ELSE CHOOSE i \in ends : \A j \in ends : i <= j
       IN <<SubSeq(t, 1, n - 1)>> \o SplitWords(SubSeq(t, n, Len(t)))

\* s[-1] of a list
Last(s) == s[Len(s)]

\* ---- Python's int() and str() of an int
Digits == <<"0", "1", "2", "3", "4", "5", "6", "7", "8", "9">>

DigitValue(c) == (CHOOSE k \in 1..10 : Digits[k] = c) - 1

RECURSIVE NatOf(_)
NatOf(s) == IF s = <<>> THEN 0 ELSE NatOf(SubSeq(s, 1, Len(s) - 1)) * 10 + DigitValue(Last(s))

\* int(s), for a text with whitespace around an optional sign and decimal
\* digits: [ok, val], ok FALSE where int raises ValueError
int(s) ==
  LET t == Strip(s)
      signed == t # <<>> /\ Head(t) \in {"-", "+"}
      digits == IF signed THEN Tail(t) ELSE t
  IN IF digits # <<>> /\ \A i \in 1..Len(digits) : digits[i] \in DigitChars
     THEN [ok |-> TRUE,
           val |-> IF signed /\ Head(t) = "-" THEN 0 - NatOf(digits) ELSE NatOf(digits)]
     ELSE [ok |-> FALSE, val |-> 0]

RECURSIVE NatText(_)
NatText(n) == IF n < 10 THEN <<Digits[n + 1]>> ELSE NatText(n \div 10) \o <<Digits[(n % 10) + 1]>>

\* An int as a value: its JSON text.
IntValue(n) == IF n < 0 THEN <<"-">> \o NatText(0 - n) ELSE NatText(n)

\* A str as a value: its JSON text (no character drawn needs an escape).
StrValue(s) == <<Quote>> \o s \o <<Quote>>

\* ---- Python's view of a value json.loads returned
\* isinstance(v, dict)
IsDict(v) == v # <<>> /\ Head(v) = "{"

\* isinstance(v, list)
IsList(v) == v # <<>> /\ Head(v) = "["

\* The members of a dict in the order of the text: [key, value], the key
\* without its quotes; i is where a key starts, or the closing brace, and
\* key_end and value_end are the positions after the key and after the value.
RECURSIVE MembersFrom(_, _)
RECURSIVE MembersWith(_, _, _, _)
MembersFrom(v, i) ==
  IF v[i] = "}"
  THEN <<>>
  ELSE MembersWith(v, i, ParseString(v, i).next,
                   ParseValue(v, ParseString(v, i).next + 1).next)

MembersWith(v, i, key_end, value_end) ==
  <<[key |-> SubSeq(v, i + 1, key_end - 2), value |-> SubSeq(v, key_end + 1, value_end - 1)]>>
    \o (IF v[value_end] = "," THEN MembersFrom(v, value_end + 1) ELSE <<>>)

Members(v) == MembersFrom(v, 2)

\* The elements of a list, for `for x in v`.
RECURSIVE ElementsFrom(_, _)
RECURSIVE ElementsWith(_, _, _)
ElementsFrom(v, i) ==
  IF v[i] = "]" THEN <<>> ELSE ElementsWith(v, i, ParseValue(v, i).next)

ElementsWith(v, i, value_end) ==
  <<SubSeq(v, i, value_end - 1)>>
    \o (IF v[value_end] = "," THEN ElementsFrom(v, value_end + 1) ELSE <<>>)

Elements(v) == ElementsFrom(v, 2)

\* key in d, for the members of d
KeyIn(members, key) == \E i \in 1..Len(members) : members[i].key = key

\* d.get(key, default), for the members of d: the value of the member,
\* whatever it is, and the default only where the dict has no such member
\* (of two members with one name json.loads keeps the last).
Lookup(members, key, default) ==
  LET hits == {i \in 1..Len(members) : members[i].key = key}
  IN IF hits = {} THEN default
     ELSE members[CHOOSE i \in hits : \A j \in hits : j <= i].value

HasKey(d, key) == KeyIn(Members(d), key)

Get(d, key, default) == Lookup(Members(d), key, default)

\* ""
EmptyStr == StrValue(<<>>)

\* "0"
ZeroStr == StrValue(<<"0">>)

\* ---- parse_mcp_response: the JSON format (lines 269-338)
\* Variant: viewCount is taken from the entry's likes.
VideoFieldsViewsFromLikes(members) ==
  [title |-> Lookup(members, TitleKey, EmptyStr),
   channelTitle |-> Lookup(members, ChannelKey, EmptyStr),
   viewCount |-> Lookup(members, LikesKey, ZeroStr),
   likeCount |-> Lookup(members, LikesKey, ZeroStr),
   publishedAt |-> Lookup(members, PublishedKey, EmptyStr),
   url |-> Lookup(members, UrlKey, EmptyStr),
   description |-> Lookup(members, DescriptionKey, EmptyStr),
   videoId |-> Lookup(members, VideoIdKey, EmptyStr),
   thumbnail |-> Lookup(members, ThumbnailKey, EmptyStr)]

\* One entry of the videos list, from the members of the entry. An entry
\* that is no dict has no get, and the AttributeError ends the function in
\* its outer except.
VideoFields(members) ==
  [title |-> Lookup(members, TitleKey, EmptyStr),
   channelTitle |-> Lookup(members, ChannelKey, EmptyStr),
   viewCount |-> Lookup(members, ViewsKey, ZeroStr),
   likeCount |-> Lookup(members, LikesKey, ZeroStr),
   publishedAt |-> Lookup(members, PublishedKey, EmptyStr),
   url |-> Lookup(members, UrlKey, EmptyStr),
   description |-> Lookup(members, DescriptionKey, EmptyStr),
   videoId |-> Lookup(members, VideoIdKey, EmptyStr),
   thumbnail |-> Lookup(members, ThumbnailKey, EmptyStr)]

VideoItem(video) == VideoFields(Members(video))

ChannelFields(members) ==
  [title |-> Lookup(members, TitleKey, EmptyStr),
   subscriberCount |-> Lookup(members, SubscribersKey, ZeroStr),
   videoCount |-> Lookup(members, VideosKey, ZeroStr),
   viewCount |-> Lookup(members, ViewsKey, ZeroStr),
   publishedAt |-> Lookup(members, PublishedKey, EmptyStr),
   url |-> Lookup(members, UrlKey, EmptyStr),
   description |-> Lookup(members, DescriptionKey, EmptyStr),
   channelId |-> Lookup(members, ChannelIdKey, EmptyStr),
   thumbnail |-> Lookup(members, ThumbnailKey, EmptyStr)]

ChannelItem(channel) == ChannelFields(Members(channel))

PlaylistFields(members) ==
  [title |-> Lookup(members, TitleKey, EmptyStr),
   channelTitle |-> Lookup(members, ChannelKey, EmptyStr),
   videoCount |-> Lookup(members, VideosKey, ZeroStr),
   publishedAt |-> Lookup(members, PublishedKey, EmptyStr),
   url |-> Lookup(members, UrlKey, EmptyStr),
   description |-> Lookup(members, DescriptionKey, EmptyStr),
   playlistId |-> Lookup(members, PlaylistIdKey, EmptyStr),
   thumbnail |-> Lookup(members, ThumbnailKey, EmptyStr)]

PlaylistItem(playlist) == PlaylistFields(Members(playlist))

\* The entries the loop over json_data[key] runs through, for the members
\* of json_data: none unless the member is there and is a list.
SourceList(members, key) ==
  IF KeyIn(members, key) /\ IsList(Lookup(members, key, <<>>))
  THEN Elements(Lookup(members, key, <<>>))
  ELSE <<>>

\* type(v).__name__
TypeName(v) ==
  CASE v = JsonNull -> <<"N","o","n","e","T","y","p","e">>
    [] v \in {JsonTrue, JsonFalse} -> <<"b","o","o","l">>
    [] Head(v) = Quote -> <<"s","t","r">>
    [] IsList(v) -> <<"l","i","s","t">>
    [] IsDict(v) -> <<"d","i","c","t">>
    [] OTHER -> <<"i","n","t">>

\* "' object has no attribute 'get'"
NoGetText == <<"'"," ","o","b","j","e","c","t"," ","h","a","s"," ","n","o"," ","a","t","t","r","i","b","u","t","e"," ","'","g","e","t","'">>

\* str(e) of the AttributeError of v.get
AttributeErrorText(v) == <<"'">> \o TypeName(v) \o NoGetText

\* What parse_mcp_response returns: a dict, here a function of its keys.
\* {"error": text}
ErrorDict(text) == [k \in {"error"} |-> StrValue(text)]

\* The lists a tool's result carries (lines 325-336 and 426-438).
ToolLists(tool_name) ==
  CASE tool_name = "search_youtube_videos" -> {"videos"}
    [] tool_name = "search_youtube_channels" -> {"channels"}
    [] tool_name = "search_youtube_playlists" -> {"playlists"}
    [] OTHER -> {"videos", "channels", "playlists"}

ResultDict(keys, query, total_results, videos, channels, playlists) ==
  [k \in keys |->
     CASE k = "query" -> query
       [] k = "total_results" -> total_results
       [] k = "videos" -> videos
       [] k = "channels" -> channels
       [] k = "playlists" -> playlists]

\* The three loops and the return, for the members of json_data and the
\* entries of its lists.
JsonFormatResult(members, tool_name, video_source, channel_source, playlist_source) ==
  LET entries == video_source \o channel_source \o playlist_source
      raising == {i \in 1..Len(entries) : ~IsDict(entries[i])}
  IN IF raising # {}
     THEN ErrorDict(ParseFailedPrefix
                      \o AttributeErrorText(entries[CHOOSE i \in raising : \A j \in raising : i <= j]))
     ELSE ResultDict({"query", "total_results"} \cup ToolLists(tool_name),
                     Lookup(members, QueryKey, EmptyStr),
                     Lookup(members, TotalResultsKey, IntValue(Len(entries))),
                     [i \in 1..Len(video_source) |-> VideoItem(video_source[i])],
                     [i \in 1..Len(channel_source) |-> ChannelItem(channel_source[i])],
                     [i \in 1..Len(playlist_source) |-> PlaylistItem(playlist_source[i])])

\* Variant: a payload with an "error" member gives an error result.
JsonFormatOfSurfacingError(members, tool_name) ==
  IF KeyIn(members, ErrorKey)
  THEN [k \in {"error"} |-> Lookup(members, ErrorKey, EmptyStr)]
  ELSE JsonFormatResult(members, tool_name, SourceList(members, VideosKey),
                        SourceList(members, ChannelsKey), SourceList(members, PlaylistsKey))

\* The sources of the three loops (lines 276, 291 and 306).
JsonFormatOf(members, tool_name) ==
  JsonFormatResult(members, tool_name, SourceList(members, VideosKey),
                   SourceList(members, ChannelsKey), SourceList(members, PlaylistsKey))

\* The branch of isinstance(json_data, dict).
ParseJsonFormat(json_data, tool_name) == JsonFormatOf(Members(json_data), tool_name)

\* ---- parse_mcp_response: the text format (lines 346-438)
\* line.startswith of either bullet
IsBullet(line) == StartsWith(line, Mojibake) \/ StartsWith(line, <<Bullet>>)

\* The lines that end the look-ahead of a bullet (lines 457, 495, 532).
EndsEntry(line) ==
  \/ line = <<>>
  \/ IsBullet(line)
  \/ \E header \in {VideosHeader, ChannelsHeader, PlaylistsHeader, SummaryHeader, SuccessHeader} :
       StartsWith(line, header)

\* line.replace(label, '').strip()
AfterLabel(line, label) == Strip(Replace(line, label))

\* The while loop of parse_bullet_*: channel_title and url from the lines
\* after the bullet; with_channel is FALSE for parse_bullet_channel, which
\* has no Channel: branch. i counts from 1, and line is lines[i].strip().
RECURSIVE RelatedLines(_, _, _, _)
RECURSIVE RelatedLine(_, _, _, _, _)
RelatedLines(lines, i, with_channel, found) ==
  IF i > Len(lines)
  THEN found
  ELSE RelatedLine(lines, i, with_channel, found, Strip(lines[i]))

RelatedLine(lines, i, with_channel, found, line) ==
  IF EndsEntry(line)
  THEN found
  ELSE IF with_channel /\ StartsWith(line, ChannelLabel)
       THEN RelatedLines(lines, i + 1, with_channel,
                         [found EXCEPT !.channel_title = AfterLabel(line, ChannelLabel)])
       ELSE IF StartsWith(line, UrlLabel)
            THEN [found EXCEPT !.url = AfterLabel(line, UrlLabel)]
            ELSE RelatedLines(lines, i + 1, with_channel, found)

NothingFound == [channel_title |-> <<>>, url |-> <<>>]

\* The dict parse_bullet_video returns, for its title and what its loop found.
BulletVideo(title, found) ==
  [title |-> StrValue(title),
   channelTitle |-> StrValue(found.channel_title),
   viewCount |-> ZeroStr,
   likeCount |-> ZeroStr,
   publishedAt |-> EmptyStr,
   url |-> StrValue(found.url),
   description |-> EmptyStr,
   videoId |-> StrValue(IF Contains(VideoIdMark, found.url)
                        THEN Last(SplitOn(found.url, VideoIdMark))
                        ELSE <<>>),
   thumbnail |-> EmptyStr]

parse_bullet_video(bullet_line, lines, start_index) ==
  BulletVideo(Strip(Replace(Replace(bullet_line, Mojibake), <<Bullet>>)),
              RelatedLines(lines, start_index + 1, TRUE, NothingFound))

BulletChannel(title, found) ==
  [title |-> StrValue(title),
   subscriberCount |-> ZeroStr,
   videoCount |-> ZeroStr,
   viewCount |-> ZeroStr,
   publishedAt |-> EmptyStr,
   url |-> StrValue(found.url),
   description |-> EmptyStr,
   channelId |-> StrValue(IF found.url # <<>> THEN Last(Split(found.url, "/")) ELSE <<>>),
   thumbnail |-> EmptyStr]

parse_bullet_channel(bullet_line, lines, start_index) ==
  BulletChannel(Strip(Replace(bullet_line, <<Bullet>>)),
                RelatedLines(lines, start_index + 1, FALSE, NothingFound))

BulletPlaylist(title, found) ==
  [title |-> StrValue(title),
   channelTitle |-> StrValue(found.channel_title),
   videoCount |-> ZeroStr,
   publishedAt |-> EmptyStr,
   url |-> StrValue(found.url),
   description |-> EmptyStr,
   playlistId |-> StrValue(IF Contains(PlaylistIdMark, found.url)
                           THEN Last(SplitOn(found.url, PlaylistIdMark))
                           ELSE <<>>),
   thumbnail |-> EmptyStr]

parse_bullet_playlist(bullet_line, lines, start_index) ==
  BulletPlaylist(Strip(Replace(bullet_line, <<Bullet>>)),
                 RelatedLines(lines, start_index + 1, TRUE, NothingFound))

\* ---- parse_video_block (lines 556-607); parse_mcp_response does not call
\* it, nor parse_channel_block and parse_playlist_block
\* "VIDEO:"
VideoBlockLabel == <<"V","I","D","E","O",":">>

\* "CHANNEL:"
ChannelBlockLabel == <<"C","H","A","N","N","E","L",":">>

\* "PLAYLIST:"
PlaylistBlockLabel == <<"P","L","A","Y","L","I","S","T",":">>

\* "---"
BlockEnd == <<"-","-","-">>

\* "Views:"
ViewsLabel == <<"V","i","e","w","s",":">>

\* "Likes:"
LikesLabel == <<"L","i","k","e","s",":">>

\* "Published:"
PublishedLabel == <<"P","u","b","l","i","s","h","e","d",":">>

\* "Description:"
DescriptionLabel == <<"D","e","s","c","r","i","p","t","i","o","n",":">>

\* "..."
Ellipsis == <<".",".",".">>

\* The lines that end a block (line 574).
EndsBlock(line) ==
  \E mark \in {BlockEnd, VideoBlockLabel, ChannelBlockLabel, PlaylistBlockLabel, SuccessHeader} :
    StartsWith(line, mark)

\* description[:-3] where the description ends with the ellipsis
WithoutEllipsis(s) ==
  IF Len(s) >= 3 /\ SubSeq(s, Len(s) - 2, Len(s)) = Ellipsis
  THEN SubSeq(s, 1, Len(s) - 3)
  ELSE s

\* The while loop of parse_video_block: the fields of the labelled lines
\* after the block label; the Description: line ends the loop.
RECURSIVE BlockLines(_, _, _)
RECURSIVE BlockLine(_, _, _, _)
BlockLines(lines, i, found) ==
  IF i > Len(lines) THEN found ELSE BlockLine(lines, i, found, Strip(lines[i]))

BlockLine(lines, i, found, line) ==
  IF EndsBlock(line)
  THEN found
  ELSE IF StartsWith(line, DescriptionLabel)
       THEN [found EXCEPT !.description = WithoutEllipsis(AfterLabel(line, DescriptionLabel))]
       ELSE BlockLines(lines, i + 1,
              IF StartsWith(line, ChannelLabel)
              THEN [found EXCEPT !.channel_title = AfterLabel(line, ChannelLabel)]
              ELSE IF StartsWith(line, ViewsLabel)
              THEN [found EXCEPT !.views = AfterLabel(line, ViewsLabel)]
              ELSE IF StartsWith(line, LikesLabel)
              THEN [found EXCEPT !.likes = AfterLabel(line, LikesLabel)]
              ELSE IF StartsWith(line, PublishedLabel)
              THEN [found EXCEPT !.published = AfterLabel(line, PublishedLabel)]
              ELSE IF StartsWith(line, UrlLabel)
              THEN [found EXCEPT !.url = AfterLabel(line, UrlLabel)]
              ELSE found)

\* The defaults of parse_video_block (lines 563-568).
BlockDefaults ==
  [channel_title |-> <<>>, views |-> <<"0">>, likes |-> <<"0">>, published |-> <<>>,
   url |-> <<>>, description |-> <<>>]

\* The dict parse_video_block returns, for its title and what its loop found.
BlockVideo(title, found) ==
  [title |-> StrValue(title),
   channelTitle |-> StrValue(found.channel_title),
   viewCount |-> StrValue(found.views),
   likeCount |-> StrValue(found.likes),
   publishedAt |-> StrValue(found.published),
   url |-> StrValue(found.url),
   description |-> StrValue(found.description),
   videoId |-> StrValue(IF Contains(VideoIdMark, found.url)
                        THEN Last(SplitOn(found.url, VideoIdMark))
                        ELSE <<>>),
   thumbnail |-> EmptyStr]

parse_video_block(lines, start_index) ==
  BlockVideo(AfterLabel(lines[start_index], VideoBlockLabel),
             BlockLines(lines, start_index + 1, BlockDefaults))

\* The locals of the loop; section stands for the three in_*_section flags,
\* of which at most one is set; error holds the text of an ERROR: line.
LegacyStart ==
  [videos |-> <<>>, channels |-> <<>>, playlists |-> <<>>, total_results |-> 0,
   section |-> "none", failed |-> FALSE, error |-> <<>>]

\* len(videos) + len(channels) + len(playlists)
Listed(st) == Len(st.videos) + Len(st.channels) + Len(st.playlists)

\* int(count_text), or the except branch (lines 387-391)
FoundTotal(count, listed) == IF count.ok THEN count.val ELSE listed

\* total_results += int(parts[1].strip().split()[0]), or the except branch
\* (lines 393-400)
VideosTotal(words, total_results) ==
  IF words # <<>> /\ int(words[1]).ok
  THEN total_results + int(words[1]).val
  ELSE total_results

\* total_results after a SUMMARY: or SUCCESS: line (lines 386-400)
SummaryTotal(line, st) ==
  IF Contains(FoundWord, line) /\ Contains(ResultsWord, line)
  THEN FoundTotal(int(SplitOn(SplitOn(line, FoundWord)[2], ResultsWord)[1]), Listed(st))
  ELSE IF Contains(VideosLabel, line)
       THEN VideosTotal(SplitWords(SplitOn(line, VideosLabel)[2]), st.total_results)
       ELSE st.total_results

\* The while loop over the lines; i counts from 1, and line is
\* lines[i].strip().
RECURSIVE LegacyScan(_, _, _)
RECURSIVE LegacyLine(_, _, _, _)
LegacyScan(lines, i, st) ==
  IF i > Len(lines) THEN st ELSE LegacyLine(lines, i, st, Strip(lines[i]))

LegacyLine(lines, i, st, line) ==
  IF StartsWith(line, ErrorHeader)
  THEN [st EXCEPT !.failed = TRUE, !.error = AfterLabel(line, ErrorHeader)]
  ELSE LegacyScan(lines, i + 1,
         IF line = <<>>
         THEN st
         ELSE IF StartsWith(line, VideosHeader)
         THEN [st EXCEPT !.section = "videos"]
         ELSE IF StartsWith(line, ChannelsHeader)
         THEN [st EXCEPT !.section = "channels"]
         ELSE IF StartsWith(line, PlaylistsHeader)
         THEN [st EXCEPT !.section = "playlists"]
         ELSE IF StartsWith(line, SummaryHeader) \/ StartsWith(line, SuccessHeader)
         THEN [st EXCEPT !.section = "none", !.total_results = SummaryTotal(line, st)]
         ELSE IF st.section = "videos" /\ IsBullet(line)
         THEN [st EXCEPT !.videos = Append(@, parse_bullet_video(line, lines, i))]
         ELSE IF st.section = "channels" /\ IsBullet(line)
         THEN [st EXCEPT !.channels = Append(@, parse_bullet_channel(line, lines, i))]
         ELSE IF st.section = "playlists" /\ IsBullet(line)
         THEN [st EXCEPT !.playlists = Append(@, parse_bullet_playlist(line, lines, i))]
         ELSE st)

\* The return of the old parsing method (lines 425-438), for the locals the
\* loop ended with.
TextFormatResult(st, tool_name) ==
  IF st.failed
  THEN ErrorDict(st.error)
  ELSE IF tool_name \in {"search_youtube_videos", "search_youtube_channels",
                         "search_youtube_playlists"}
       THEN ResultDict(ToolLists(tool_name) \cup {"query"}, StrValue(SearchQueryText),
                       IntValue(0), st.videos, st.channels, st.playlists)
       ELSE ResultDict(ToolLists(tool_name) \cup {"total_results"}, EmptyStr,
                       IntValue(IF st.total_results > 0 THEN st.total_results ELSE Listed(st)),
                       st.videos, st.channels, st.playlists)

\* The old parsing method (lines 346-438).
ParseTextFormat(response_text, tool_name) ==
  TextFormatResult(LegacyScan(Split(Strip(response_text), "\n"), 1, LegacyStart), tool_name)

\* The choice of the format, for what json.loads gave.
ParseEither(json_data, response_text, tool_name) ==
  IF json_data.ok /\ IsDict(json_data.val)
  THEN ParseJsonFormat(json_data.val, tool_name)
  ELSE ParseTextFormat(response_text, tool_name)

\* parse_mcp_response(response_text, tool_name)
parse_mcp_response(response_text, tool_name) ==
  ParseEither(json_loads(response_text), response_text, tool_name)

\* ---- the content texts drawn for the normalizer
\* Cats
CatsText == <<"C","a","t","s">>

\* Zoo
ZooText == <<"Z","o","o">>

\* cats
QueryText == <<"c","a","t","s">>

\* http://y/watch?v=a1
VideoUrl == <<"h","t","t","p",":","/","/","y","/","w","a","t","c","h","?","v","=","a","1">>

\* http://y/channel/c1
ChannelUrl == <<"h","t","t","p",":","/","/","y","/","c","h","a","n","n","e","l","/","c","1">>

\* http://y/playlist?list=p1
PlaylistUrl == <<"h","t","t","p",":","/","/","y","/","p","l","a","y","l","i","s","t","?","l","i","s","t","=","p","1">>

\* quota exceeded
QuotaText == <<"q","u","o","t","a"," ","e","x","c","e","e","d","e","d">>

\* http://y/watch?v=a1&t=5
VideoUrlTimed == <<"h","t","t","p",":","/","/","y","/","w","a","t","c","h","?","v","=","a","1","&","t","=","5">>

\* Cats ERROR: Zoo
NestedErrorText == <<"C","a","t","s"," ","E","R","R","O","R",":"," ","Z","o","o">>

\* The lines of a block of the block-label format.
VideoBlock ==
  <<<<"V","I","D","E","O",":"," ","C","a","t","s">>,
    <<"C","h","a","n","n","e","l",":"," ","Z","o","o">>,
    <<"V","i","e","w","s",":"," ","5">>,
    <<"L","i","k","e","s",":"," ","2">>,
    <<"P","u","b","l","i","s","h","e","d",":"," ","2","0","2","0">>,
    <<"U","R","L",":"," ","h","t","t","p",":","/","/","y","/","w","a","t","c","h","?","v","=","a","1">>,
    <<"D","e","s","c","r","i","p","t","i","o","n",":"," ","d",".",".",".">>>>

ChannelBlock ==
  <<<<"C","H","A","N","N","E","L",":"," ","Z","o","o">>,
    <<"S","u","b","s","c","r","i","b","e","r","s",":"," ","9">>,
    <<"U","R","L",":"," ","h","t","t","p",":","/","/","y","/","c","h","a","n","n","e","l","/","c","1">>>>

PlaylistBlock ==
  <<<<"P","L","A","Y","L","I","S","T",":"," ","C","a","t","s">>,
    <<"C","h","a","n","n","e","l",":"," ","Z","o","o">>,
    <<"U","R","L",":"," ","h","t","t","p",":","/","/","y","/","p","l","a","y","l","i","s","t","?","l","i","s","t","=","p","1">>>>

\* SUMMARY: Found 2 results
FoundTwoLine == <<"S","U","M","M","A","R","Y",":"," ","F","o","u","n","d"," ","2"," ","r","e","s","u","l","t","s">>

\* SUMMARY: Found many results
FoundManyLine == <<"S","U","M","M","A","R","Y",":"," ","F","o","u","n","d"," ","m","a","n","y"," ","r","e","s","u","l","t","s">>

\* SUCCESS: Videos: 3, Channels: 1
SuccessVideosLine == <<"S","U","C","C","E","S","S",":"," ","V","i","d","e","o","s",":"," ","3",","," ","C","h","a","n","n","e","l","s",":"," ","1">>

\* SUCCESS: done
SuccessBareLine == <<"S","U","C","C","E","S","S",":"," ","d","o","n","e">>

\* Notes: none
NotesLine == <<"N","o","t","e","s",":"," ","n","o","n","e">>

\* sep.join(parts)
Joined(parts, sep) ==
  LET Join[k \in 0..Len(parts)] ==
        IF k = 0 THEN <<>>
        ELSE IF k = 1 THEN parts[1] ELSE Join[k - 1] \o sep \o parts[k]
  IN Join[Len(parts)]

\* The JSON text of an object and of an array, and one member of an object.
JsonObjectOf(members) == <<"{">> \o Joined(members, <<",">>) \o <<"}">>

JsonListOf(elements) == <<"[">> \o Joined(elements, <<",">>) \o <<"]">>

Member(key, value) == StrValue(key) \o <<":">> \o value

\* The entries of a source list: with every field, with some, with a null
\* field, with a number, and entries that are no objects.
FullVideo ==
  JsonObjectOf(<<Member(TitleKey, StrValue(CatsText)), Member(ChannelKey, StrValue(ZooText)),
                 Member(ViewsKey, StrValue(<<"5">>)), Member(LikesKey, StrValue(<<"2">>)),
                 Member(PublishedKey, StrValue(<<"2","0","2","0">>)),
                 Member(UrlKey, StrValue(VideoUrl)), Member(DescriptionKey, StrValue(<<"d">>)),
                 Member(VideoIdKey, StrValue(<<"a","1">>)),
                 Member(ThumbnailKey, StrValue(<<"t">>))>>)

FullChannel ==
  JsonObjectOf(<<Member(TitleKey, StrValue(ZooText)), Member(SubscribersKey, StrValue(<<"9">>)),
                 Member(VideosKey, StrValue(<<"4">>)), Member(ViewsKey, StrValue(<<"5">>)),
                 Member(PublishedKey, StrValue(<<"2","0","2","0">>)),
                 Member(UrlKey, StrValue(ChannelUrl)), Member(DescriptionKey, StrValue(<<"d">>)),
                 Member(ChannelIdKey, StrValue(<<"c","1">>)),
                 Member(ThumbnailKey, StrValue(<<"t">>))>>)

FullPlaylist ==
  JsonObjectOf(<<Member(TitleKey, StrValue(CatsText)), Member(ChannelKey, StrValue(ZooText)),
                 Member(VideosKey, StrValue(<<"4">>)),
                 Member(PublishedKey, StrValue(<<"2","0","2","0">>)),
                 Member(UrlKey, StrValue(PlaylistUrl)), Member(DescriptionKey, StrValue(<<"d">>)),
                 Member(PlaylistIdKey, StrValue(<<"p","1">>)),
                 Member(ThumbnailKey, StrValue(<<"t">>))>>)

TitleOnly == JsonObjectOf(<<Member(TitleKey, StrValue(CatsText))>>)

NullTitle == JsonObjectOf(<<Member(TitleKey, JsonNull)>>)

NullViews ==
  JsonObjectOf(<<Member(TitleKey, StrValue(CatsText)), Member(ViewsKey, JsonNull)>>)

NumberViews ==
  JsonObjectOf(<<Member(TitleKey, StrValue(CatsText)), Member(ViewsKey, <<"5">>)>>)

SourceEntries ==
  {JsonEmptyObject, TitleOnly, NullTitle, NullViews, NumberViews,
   FullVideo, FullChannel, FullPlaylist, StrValue(CatsText), JsonNull}

SourceLists ==
  {<<>>} \cup {<<e>> : e \in SourceEntries}
    \cup {<<TitleOnly, FullVideo>>, <<NullTitle, TitleOnly>>, <<TitleOnly, TitleOnly>>,
          <<FullChannel, FullPlaylist>>}

ListKeys == {VideosKey, ChannelsKey, PlaylistsKey}

\* ---- the search tools of the MCP server (youtube_mcp_server.py), whose
\* return values are the content texts the adapter is sent
\* "total_views"
TotalViewsKey ==
  <<"t","o","t","a","l","_","v","i","e","w","s">>

\* "created"
CreatedKey ==
  <<"c","r","e","a","t","e","d">>

\* "video_count"
VideoCountKey ==
  <<"v","i","d","e","o","_","c","o","u","n","t">>

\* "search_parameters"
SearchParametersKey ==
  <<"s","e","a","r","c","h","_","p","a","r","a","m","e","t","e","r","s">>

\* {"max_results": max_results, "order": order}, for the defaults of the tools
SearchParameters ==
  <<"{","\"","m","a","x","_","r","e","s","u","l","t","s","\"",":","1","0",",","\"","o","r","d","e","r","\"",":","\"","r","e","l","e","v","a","n","c","e","\"","}">>

\* "YouTube API key not configured. Please set YOUTUBE_API_KEY in your .env file."
ApiKeyErrorText ==
  <<"Y","o","u","T","u","b","e"," ","A","P","I"," ","k","e","y"," ","n","o","t"," ","c","o","n","f","i","g","u","r","e","d","."," ","P","l","e","a","s","e"," ","s","e","t"," ","Y","O","U","T","U","B","E","_","A","P","I","_","K","E","Y"," ","i","n"," ","y","o","u","r"," ",".","e","n","v"," ","f","i","l","e",".">>

\* "ERROR: Server is still initializing, please try again in a moment."
InitializingErrorText ==
  <<"E","R","R","O","R",":"," ","S","e","r","v","e","r"," ","i","s"," ","s","t","i","l","l"," ","i","n","i","t","i","a","l","i","z","i","n","g",","," ","p","l","e","a","s","e"," ","t","r","y"," ","a","g","a","i","n"," ","i","n"," ","a"," ","m","o","m","e","n","t",".">>

\* "YouTube API error: "
YouTubeApiErrorPrefix ==
  <<"Y","o","u","T","u","b","e"," ","A","P","I"," ","e","r","r","o","r",":"," ">>

\* "https://www.youtube.com/channel/"
ChannelUrlPrefix ==
  <<"h","t","t","p","s",":","/","/","w","w","w",".","y","o","u","t","u","b","e",".","c","o","m","/","c","h","a","n","n","e","l","/">>

\* "https://www.youtube.com/playlist?list="
PlaylistUrlPrefix ==
  <<"h","t","t","p","s",":","/","/","w","w","w",".","y","o","u","t","u","b","e",".","c","o","m","/","p","l","a","y","l","i","s","t","?","l","i","s","t","=">>

\* return {"error": ...}: the initialization check, the missing API key and
\* the two except clauses (lines 50-60 and 145-148, and the same in every tool)
ServerError(text) == JsonObjectOf(<<Member(ErrorKey, StrValue(text))>>)

ServerErrors ==
  {ServerError(InitializingErrorText), ServerError(ApiKeyErrorText),
   ServerError(YouTubeApiErrorPrefix \o QuotaText),
   ServerError(UnexpectedErrorPrefix \o QuotaText)}

\* f"{int(n):,}": the digits in groups of three
RECURSIVE Grouped(_)
Grouped(digits) ==
  IF Len(digits) <= 3
  THEN digits
  ELSE Grouped(SubSeq(digits, 1, Len(digits) - 3))
         \o <<",">> \o SubSeq(digits, Len(digits) - 2, Len(digits))

\* f"{int(count):,}" if count.isdigit() else count
Formatted(count) ==
  IF count # <<>> /\ \A i \in 1..Len(count) : count[i] \in DigitChars
  THEN Grouped(NatText(NatOf(count)))
  ELSE count

\* s[:n]
Prefix(s, n) == SubSeq(s, 1, IF Len(s) < n THEN Len(s) ELSE n)

\* channel_data with the statistics of the channel (lines 200-210)
ServerChannel(snippet, statistics, channel_id) ==
  JsonObjectOf(<<Member(TitleKey, StrValue(snippet.title)),
                 Member(SubscribersKey, StrValue(Formatted(statistics.subscriberCount))),
                 Member(VideosKey, StrValue(Formatted(statistics.videoCount))),
                 Member(TotalViewsKey, StrValue(Formatted(statistics.viewCount))),
                 Member(CreatedKey, StrValue(Prefix(snippet.publishedAt, 10))),
                 Member(UrlKey, StrValue(ChannelUrlPrefix \o channel_id)),
                 Member(DescriptionKey, StrValue(Prefix(snippet.description, 200) \o Ellipsis)),
                 Member(ChannelIdKey, StrValue(channel_id)),
                 Member(ThumbnailKey, StrValue(snippet.thumbnail))>>)

\* channel_data after an HttpError of the statistics request (lines 213-220)
ServerChannelWithoutStatistics(snippet, channel_id) ==
  JsonObjectOf(<<Member(TitleKey, StrValue(snippet.title)),
                 Member(CreatedKey, StrValue(Prefix(snippet.publishedAt, 10))),
                 Member(UrlKey, StrValue(ChannelUrlPrefix \o channel_id)),
                 Member(DescriptionKey, StrValue(Prefix(snippet.description, 200) \o Ellipsis)),
                 Member(ChannelIdKey, StrValue(channel_id)),
                 Member(ThumbnailKey, StrValue(snippet.thumbnail))>>)

\* playlist_data with the item count of the playlist, a number (lines 277-286)
ServerPlaylist(snippet, item_count, playlist_id) ==
  JsonObjectOf(<<Member(TitleKey, StrValue(snippet.title)),
                 Member(ChannelKey, StrValue(snippet.channelTitle)),
                 Member(VideoCountKey, IntValue(item_count)),
                 Member(CreatedKey, StrValue(Prefix(snippet.publishedAt, 10))),
                 Member(UrlKey, StrValue(PlaylistUrlPrefix \o playlist_id)),
                 Member(DescriptionKey, StrValue(Prefix(snippet.description, 200) \o Ellipsis)),
                 Member(PlaylistIdKey, StrValue(playlist_id)),
                 Member(ThumbnailKey, StrValue(snippet.thumbnail))>>)

\* playlist_data after an HttpError of the details request (lines 289-296)
ServerPlaylistWithoutCount(snippet, playlist_id) ==
  JsonObjectOf(<<Member(TitleKey, StrValue(snippet.title)),
                 Member(ChannelKey, StrValue(snippet.channelTitle)),
                 Member(CreatedKey, StrValue(Prefix(snippet.publishedAt, 10))),
                 Member(UrlKey, StrValue(PlaylistUrlPrefix \o playlist_id)),
                 Member(DescriptionKey, StrValue(Prefix(snippet.description, 200) \o Ellipsis)),
                 Member(PlaylistIdKey, StrValue(playlist_id)),
                 Member(ThumbnailKey, StrValue(snippet.thumbnail))>>)

\* return {"query": ..., "total_results": len(items), key: items,
\* "search_parameters": {...}} (lines 222-230 and 299-307)
ServerResult(query, key, items) ==
  JsonObjectOf(<<Member(QueryKey, StrValue(query)),
                 Member(TotalResultsKey, IntValue(Len(items))),
                 Member(key, JsonListOf(items)),
                 Member(SearchParametersKey, SearchParameters)>>)

\* What the YouTube API gave for the one channel and the one playlist drawn.
\* "2020-01-02T03:04:05Z"
PublishedAtText ==
  <<"2","0","2","0","-","0","1","-","0","2","T","0","3",":","0","4",":","0","5","Z">>

Snippet ==
  [title |-> ZooText, channelTitle |-> ZooText, publishedAt |-> PublishedAtText,
   description |-> CatsText, thumbnail |-> <<"t">>]

Statistics == [subscriberCount |-> <<"9">>, videoCount |-> <<"4">>,
               viewCount |-> <<"1","2","3","4">>]

ServerChannels ==
  {<<ServerChannel(Snippet, Statistics, <<"c","1">>)>>,
   <<ServerChannelWithoutStatistics(Snippet, <<"c","1">>)>>}

ServerPlaylists ==
  {<<ServerPlaylist(Snippet, 4, <<"p","1">>)>>,
   <<ServerPlaylistWithoutCount(Snippet, <<"p","1">>),
     ServerPlaylist(Snippet, 4, <<"p","1">>)>>}

\* The content texts of the server's channel and playlist tools.
ServerResults ==
  {ServerResult(QueryText, ChannelsKey, items) : items \in ServerChannels}
    \cup {ServerResult(QueryText, PlaylistsKey, items) : items \in ServerPlaylists}

\* The texts of the JSON format.
JsonContents ==
  {JsonObjectOf(<<Member(key, JsonListOf(list))>>) : key \in ListKeys, list \in SourceLists}
    \cup {JsonObjectOf(<<Member(QueryKey, StrValue(QueryText)), Member(TotalResultsKey, <<"7">>),
                         Member(key, JsonListOf(list))>>) :
            key \in ListKeys, list \in {<<>>, <<TitleOnly>>, <<TitleOnly, TitleOnly>>}}
    \cup {JsonObjectOf(<<Member(QueryKey, StrValue(QueryText)),
                         Member(VideosKey, JsonListOf(<<FullVideo>>)),
                         Member(ChannelsKey, JsonListOf(<<FullChannel>>)),
                         Member(PlaylistsKey, JsonListOf(<<FullPlaylist>>))>>),
          json_dumps(JsonObjectOf(<<Member(QueryKey, StrValue(QueryText)),
                                    Member(VideosKey, JsonListOf(<<NumberViews, TitleOnly>>))>>)),
          JsonObjectOf(<<Member(VideosKey, StrValue(CatsText))>>),
          JsonObjectOf(<<Member(VideosKey, JsonNull)>>),
          JsonObjectOf(<<Member(QueryKey, JsonNull), Member(TotalResultsKey, JsonNull)>>),
          JsonObjectOf(<<Member(QueryKey, StrValue(QueryText))>>),
          JsonObjectOf(<<Member(QueryKey, StrValue(QueryText)),
                         Member(TotalResultsKey, <<"7">>)>>),
          JsonErrorObject,
          JsonEmptyObject}
    \cup ServerErrors
    \cup ServerResults

\* The texts of the text format: a section header, then entries of a bullet
\* line and the lines after it.
Text(lines) == Joined(lines, <<"\n">>)

BulletLine(bullet, title) == bullet \o <<" ">> \o title

Labelled(label, text) == label \o <<" ">> \o text

Bullets == {<<Bullet>>, Mojibake}

Headers == {VideosHeader, ChannelsHeader, PlaylistsHeader}

Urls == {VideoUrl, ChannelUrl, PlaylistUrl}

\* The lines after a bullet line.
RelatedDrawn ==
  {<<>>, <<Labelled(ChannelLabel, ZooText)>>, <<NotesLine, Labelled(ChannelLabel, ZooText)>>}
    \cup {<<Labelled(UrlLabel, u)>> : u \in Urls}
    \cup {<<Labelled(ChannelLabel, ZooText), Labelled(UrlLabel, u)>> : u \in Urls}
    \cup {<<Labelled(UrlLabel, VideoUrl), Labelled(ChannelLabel, ZooText)>>}

SummaryLines == {FoundTwoLine, FoundManyLine, SuccessVideosLine, SuccessBareLine}

TextContents ==
  {Text(<<h, BulletLine(b, CatsText)>> \o related) :
     h \in Headers, b \in Bullets, related \in RelatedDrawn}
    \cup {Text(<<h, BulletLine(<<Bullet>>, CatsText), Labelled(UrlLabel, VideoUrl), <<>>,
                 BulletLine(<<Bullet>>, ZooText), <<>>, s>>) :
            h \in Headers, s \in SummaryLines}
    \cup {Text(<<s, h, BulletLine(<<Bullet>>, CatsText)>>) : h \in Headers, s \in SummaryLines}
    \cup {Text(<<h, BulletLine(<<Bullet>>, CatsText), Labelled(ChannelLabel, ZooText),
                 Labelled(UrlLabel, VideoUrl), s, Labelled(ErrorHeader, QuotaText)>>) :
            h \in Headers, s \in {FoundTwoLine, SuccessVideosLine}}
    \cup {Text(<<VideosHeader, BulletLine(<<Bullet>>, CatsText),
                 ChannelsHeader, BulletLine(<<Bullet>>, ZooText),
                 PlaylistsHeader, BulletLine(<<Bullet>>, CatsText)>>),
          Text(<<BulletLine(<<Bullet>>, CatsText)>>),
          Text(<<VideosHeader, CatsText>>),
          Text(<<Labelled(ErrorHeader, QuotaText)>>),
          Text(<<VideosHeader, BulletLine(<<Bullet>>, CatsText), Labelled(ErrorHeader, QuotaText)>>),
          Text(<<VideosHeader, BulletLine(<<Bullet>>, CatsText), ErrorHeader>>),
          Text(<<Labelled(ErrorHeader, NestedErrorText)>>),
          Text(<<Labelled(ErrorHeader, QuotaText), Labelled(ErrorHeader, CatsText)>>),
          Text(<<VideosHeader, <<" "," ">> \o Labelled(ErrorHeader, QuotaText)>>),
          Text(<<VideosHeader, BulletLine(<<Bullet>>, CatsText),
                 Labelled(ChannelLabel, ZooText), Labelled(UrlLabel, VideoUrlTimed)>>),
          Text(<<VideosHeader, BulletLine(<<Bullet>>, CatsText),
                 Labelled(ChannelLabel, ZooText), Labelled(UrlLabel, VideoUrl),
                 BulletLine(Mojibake, ZooText),
                 Labelled(ChannelLabel, CatsText), Labelled(UrlLabel, VideoUrlTimed)>>),
          Text(<<VideosHeader, BulletLine(<<Bullet>>, CatsText), <<>>,
                 Labelled(ChannelLabel, ZooText), Labelled(UrlLabel, VideoUrl)>>),
          Text(<<VideosHeader, BulletLine(<<Bullet>>, CatsText),
                 Labelled(ChannelLabel, ZooText), Labelled(ChannelLabel, CatsText)>>),
          Text(VideoBlock \o <<BlockEnd>>),
          Text(ChannelBlock \o <<BlockEnd>>),
          Text(PlaylistBlock \o <<BlockEnd>>),
          Text(VideoBlock \o VideoBlock),
          Text(VideoBlock \o <<BlockEnd>> \o ChannelBlock \o <<BlockEnd>> \o PlaylistBlock),
          JsonEmptyArray,
          JsonTen,
          StrValue(CatsText),
          NotJsonText,
          <<>>}

ContentTexts == JsonContents \cup TextContents

\* ---- get_or_create_session_id: the answer to initialize (lines 78-92)
\* "s1", an mcp-session-id header; <<>> stands for a response without one.
SidHeader == <<"s","1">>

\* {"result":{"protocolVersion":"2024-11-05"}}
InitResultBody == <<"{","\"","r","e","s","u","l","t","\"",":","{","\"","p","r","o","t","o","c","o","l","V","e","r","s","i","o","n","\"",":","\"","2","0","2","4","-","1","1","-","0","5","\"","}","}">>

\* `not v`, for a value json.loads returned or for None
IsFalsy(v) ==
  v \in {NoneValue, JsonFalse, JsonZero, JsonEmptyString, JsonEmptyArray, JsonEmptyObject}

\* isinstance(v, str)
IsStr(v) == v # <<>> /\ Head(v) = Quote

\* "error" in init_response: a key of a dict, an element of a list, a part of
\* a string; any other value raises TypeError.
HasError(init_response) ==
  CASE IsDict(init_response) -> HasKey(init_response, ErrorKey)
    [] IsList(init_response) ->
         \E i \in 1..Len(Elements(init_response)) :
           Elements(init_response)[i] = StrValue(ErrorKey)
    [] OTHER -> Contains(ErrorKey, init_response)

\* init_response (lines 85-88): init_resp.json(), or parse_sse_response of the
\* text when that raises.
InitResponse(text) ==
  LET parsed == json_loads(text) IN
  IF parsed.ok THEN parsed.val ELSE parse_sse_response(text)

\* Variant: the body of the answer is not tested for an "error" member.
InitializeAnswerIgnoringError(status_code, sid_, text) ==
  IF sid_ = <<>>
  THEN "nosid"
  ELSE IF status_code # 200
       THEN "status"
       ELSE LET init_response == InitResponse(text) IN
            IF IsFalsy(init_response) THEN "badbody" ELSE "ok"

\* The checks of lines 79 and 90 on an answer with this status, this
\* mcp-session-id header and this body.
InitializeAnswer(status_code, sid_, text) ==
  IF sid_ = <<>>
  THEN "nosid"
  ELSE IF status_code # 200
       THEN "status"
       ELSE LET init_response == InitResponse(text) IN
            CASE IsFalsy(init_response) -> "badbody"
              [] ~(IsDict(init_response) \/ IsList(init_response) \/ IsStr(init_response)) ->
                   "exception"
              [] HasError(init_response) -> "rpcerror"
              [] OTHER -> "ok"

\* The status codes, headers and bodies drawn for the answer to initialize.
InitStatusCodes == {200, 202, 500}

InitBodies ==
  {InitResultBody, SseBody(InitResultBody), EventBody(InitResultBody),
   <<>>, NotJsonText, TruncatedJsonText, EventLine, SseBody(NotJsonText),
   JsonNull, JsonEmptyObject, JsonEmptyArray, JsonZero, SseBody(JsonEmptyObject),
   JsonErrorObject, SseBody(JsonErrorObject), JsonTen}

InitAnswers ==
  [status_code : InitStatusCodes, sid : {SidHeader, <<>>}, text : InitBodies]

\* What the code makes of the answers drawn, and of a POST that raises.
InitAnswerKinds ==
  {InitializeAnswer(a.status_code, a.sid, a.text) : a \in InitAnswers} \cup {"exception"}

\* ---- call_mcp_tool: the content of a decoded answer (lines 226-234)
\* result
ResultKey == <<"r","e","s","u","l","t">>

\* content
ContentKey == <<"c","o","n","t","e","n","t">>

\* text
TextKey == <<"t","e","x","t">>

\* What lines 226-234 make of a decoded answer without "error":
\*   nocontent  the else branch of line 233
\*   content    text is result[0].get("text", "")
\*   malformed  a .get raises AttributeError, and text is str(e)
Extracted(kind, text) == [kind |-> kind, text |-> text]

\* result[0].get("text", "")
ExtractText(first) ==
  IF IsDict(first)
  THEN Extracted("content", Get(first, TextKey, EmptyStr))
  ELSE Extracted("malformed", AttributeErrorText(first))

\* Variant: the first item is used whenever the content is a list.
ExtractFromContentAnyList(result_) ==
  IF IsList(result_)
  THEN ExtractText(IF Elements(result_) # <<>> THEN Elements(result_)[1] ELSE JsonNull)
  ELSE Extracted("nocontent", <<>>)

\* if isinstance(result, list) and len(result) > 0: ... else: ...
\* (the code's name for the content is `result`)
ExtractFromContent(result_) ==
  IF IsList(result_) /\ Len(Elements(result_)) > 0
  THEN ExtractText(Elements(result_)[1])
  ELSE Extracted("nocontent", <<>>)

\* .get("content", []) on the value of the "result" member
ContentOf(result_member) ==
  IF IsDict(result_member)
  THEN ExtractFromContent(Get(result_member, ContentKey, JsonEmptyArray))
  ELSE Extracted("malformed", AttributeErrorText(result_member))

\* result = mcp_response.get("result", {}).get("content", []) and the test
\* that follows
ExtractResult(mcp_response_) == ContentOf(Get(mcp_response_, ResultKey, JsonEmptyObject))

\* The decoded answers drawn, none with an "error" member.
\* {"jsonrpc":"2.0","id":2}
NoResultResponse == <<"{","\"","j","s","o","n","r","p","c","\"",":","\"","2",".","0","\"",",","\"","i","d","\"",":","2","}">>

\* {"result":{}}
EmptyResultResponse == <<"{","\"","r","e","s","u","l","t","\"",":","{","}","}">>

\* {"result":{"content":null}}
NullContentResponse == <<"{","\"","r","e","s","u","l","t","\"",":","{","\"","c","o","n","t","e","n","t","\"",":","n","u","l","l","}","}">>

\* {"result":{"content":"x"}}
TextContentResponse == <<"{","\"","r","e","s","u","l","t","\"",":","{","\"","c","o","n","t","e","n","t","\"",":","\"","x","\"","}","}">>

\* {"result":{"content":{"text":"x"}}}
DictContentResponse == <<"{","\"","r","e","s","u","l","t","\"",":","{","\"","c","o","n","t","e","n","t","\"",":","{","\"","t","e","x","t","\"",":","\"","x","\"","}","}","}">>

\* {"result":null}
NullResultResponse == <<"{","\"","r","e","s","u","l","t","\"",":","n","u","l","l","}">>

\* {"result":{"content":[null]}}
NullItemResponse == <<"{","\"","r","e","s","u","l","t","\"",":","{","\"","c","o","n","t","e","n","t","\"",":","[","n","u","l","l","]","}","}">>

\* {"result":{"content":[{"type":"text","text":"Cats"}]}}
CatsResponse == <<"{","\"","r","e","s","u","l","t","\"",":","{","\"","c","o","n","t","e","n","t","\"",":","[","{","\"","t","y","p","e","\"",":","\"","t","e","x","t","\"",",","\"","t","e","x","t","\"",":","\"","C","a","t","s","\"","}","]","}","}">>

ResultResponses ==
  {NoResultResponse, EmptyResultResponse, JsonResultObject, NullContentResponse,
   TextContentResponse, DictContentResponse, NullResultResponse, NullItemResponse,
   CatsResponse}

\* The answers among them that end the attempt without a content text, as
\* outcomes of the attempt.
ExtractedOutcomes ==
  {ToolOutcome(e.kind, 0, FALSE, e.text, "") :
     e \in {x \in {ExtractResult(r) : r \in ResultResponses} : x.kind # "content"}}

\* ------------------------------------------------------------------- state
VARIABLES
  cached_session_id,  \* _cached_session_id
  session_lock,       \* _session_lock: the thread holding it, 0 when free
  pc,                 \* where each thread is
  mode,               \* what each thread serves: "tool" (call_mcp_tool) or "status"
  max_retries,        \* call_mcp_tool: max_retries
  retry,              \* call_mcp_tool: retry
  session_id,         \* the value get_or_create_session_id returned to the thread
  sid,                \* get_or_create_session_id: sid
  outcome,            \* the answer to the thread's last tools/call
  last_error,         \* call_mcp_tool: last_error (<<>> for None)
  result,             \* what the thread's call returned
  toolSent,           \* tools/call requests the thread's current call has sent
  headers,            \* call_mcp_tool: headers of the tools/call of the current attempt
  mcp_request,        \* call_mcp_tool: mcp_request, the last the current call has built
  slept,              \* the time.sleep delays of the thread's current call, in ms
  returned,           \* get_or_create_session_id has returned in the current call
  init_resp,          \* the answer to the initialize of the thread's current attempt
  notif_resp,         \* the answer to its notifications/initialized
  stale_rejected,     \* the thread's last tools/call carried a cleared id and was refused
  calls,              \* requests served so far
  initSent,           \* initialize requests sent so far
  notifSent,          \* notifications/initialized sent so far
  hsFailures,         \* handshakes that have failed so far
  readyOnce,          \* some handshake has completed
  clearedIds,         \* the session ids that were cached when the cache was cleared
  response_text,      \* the decoder alone: response.text
  mcp_response,       \* the decoder alone: mcp_response
  content_text,       \* the normalizer alone: content_text
  tool_name,          \* the normalizer alone: tool_name
  results             \* the normalizer alone: what parse_mcp_response returned

sessionVars == <<cached_session_id, session_lock>>

callVars ==
  <<mode, max_retries, retry, outcome, last_error, toolSent, slept, calls, headers,
    mcp_request>>

\* What the handshake of the thread's current attempt was answered ("none"
\* when no such request was sent), kept until the attempt's tools/call.
handshakeVars == <<init_resp, notif_resp, stale_rejected>>

historyVars ==
  <<initSent, notifSent, hsFailures, readyOnce, clearedIds>>

\* The variables of the functions applied alone.
decoderVars == <<response_text, mcp_response>>

normalizerVars == <<content_text, tool_name, results>>

ioVars == <<response_text, mcp_response, content_text, tool_name, results>>

adapterVars ==
  <<cached_session_id, session_lock, pc, mode, max_retries, retry,
    session_id, sid, outcome, last_error, result, toolSent, slept, returned, calls,
    headers, mcp_request, init_resp, notif_resp, stale_rejected,
    initSent, notifSent, hsFailures, readyOnce, clearedIds>>

vars ==
  <<cached_session_id, session_lock, pc, mode, max_retries, retry,
    session_id, sid, outcome, last_error, result, toolSent, slept, returned, calls,
    headers, mcp_request, init_resp, notif_resp, stale_rejected,
    initSent, notifSent, hsFailures, readyOnce, clearedIds,
    response_text, mcp_response, content_text, tool_name, results>>

\* The adapter as the module is loaded.
InitAdapter ==
  /\ cached_session_id = NoSession
  /\ session_lock = 0
  /\ pc = [t \in Threads |-> "idle"]
  /\ mode = [t \in Threads |-> "tool"]
  /\ max_retries = [t \in Threads |-> DefaultMaxRetries]
  /\ retry = [t \in Threads |-> 0]
  /\ session_id = [t \in Threads |-> NoSession]
  /\ sid = [t \in Threads |-> NoSession]
  /\ outcome = [t \in Threads |-> NoOutcome]
  /\ last_error = [t \in Threads |-> <<>>]
  /\ result = [t \in Threads |-> NoResult]
  /\ toolSent = [t \in Threads |-> 0]
  /\ headers = [t \in Threads |-> NoHeaders]
  /\ mcp_request = [t \in Threads |-> NoRequest]
  /\ slept = [t \in Threads |-> <<>>]
  /\ returned = [t \in Threads |-> FALSE]
  /\ init_resp = [t \in Threads |-> "none"]
  /\ notif_resp = [t \in Threads |-> "none"]
  /\ stale_rejected = [t \in Threads |-> FALSE]
  /\ calls = 0
  /\ initSent = 0
  /\ notifSent = 0
  /\ hsFailures = 0
  /\ readyOnce = FALSE
  /\ clearedIds = {}

\* results before parse_mcp_response has returned.
NotReturned == [k \in {"pending"} |-> <<>>]

InitDecoder ==
  /\ response_text = <<>>
  /\ mcp_response = Decoding("pending", <<>>)

InitNormalizer ==
  /\ content_text = <<>>
  /\ tool_name = "search_youtube_all"
  /\ results = NotReturned

Init ==
  /\ InitAdapter
  /\ InitDecoder
  /\ InitNormalizer

\* ------------------------------------------------------ call_mcp_tool: entry
\* last_error = None; for retry in range(max_retries): with an empty range the
\* final return statement is reached at once.
StartCall(t, m) ==
  /\ pc[t] \in {"idle", "done"}
  /\ calls < MaxCalls
  /\ calls' = calls + 1
  /\ mode' = [mode EXCEPT ![t] = "tool"]
  /\ max_retries' = [max_retries EXCEPT ![t] = m]
  /\ retry' = [retry EXCEPT ![t] = 0]
  /\ last_error' = [last_error EXCEPT ![t] = <<>>]
  /\ toolSent' = [toolSent EXCEPT ![t] = 0]
  /\ headers' = [headers EXCEPT ![t] = NoHeaders]
  /\ mcp_request' = [mcp_request EXCEPT ![t] = NoRequest]
  /\ slept' = [slept EXCEPT ![t] = <<>>]
  /\ returned' = [returned EXCEPT ![t] = FALSE]
  /\ outcome' = [outcome EXCEPT ![t] = NoOutcome]
  /\ init_resp' = [init_resp EXCEPT ![t] = "none"]
  /\ notif_resp' = [notif_resp EXCEPT ![t] = "none"]
  /\ stale_rejected' = [stale_rejected EXCEPT ![t] = FALSE]
  /\ IF 0 < m
     THEN /\ pc' = [pc EXCEPT ![t] = "acquire"]
          /\ result' = [result EXCEPT ![t] = NoResult]
     ELSE /\ pc' = [pc EXCEPT ![t] = "done"]
          /\ result' = [result EXCEPT ![t] = FinalResult(<<>>)]
  /\ UNCHANGED <<sessionVars, historyVars, session_id, sid>>
  /\ UNCHANGED ioVars

\* The /status endpoint: session_id = get_or_create_session_id()
status(t) ==
  /\ pc[t] \in {"idle", "done"}
  /\ calls < MaxCalls
  /\ calls' = calls + 1
  /\ mode' = [mode EXCEPT ![t] = "status"]
  /\ max_retries' = [max_retries EXCEPT ![t] = DefaultMaxRetries]
  /\ retry' = [retry EXCEPT ![t] = 0]
  /\ last_error' = [last_error EXCEPT ![t] = <<>>]
  /\ toolSent' = [toolSent EXCEPT ![t] = 0]
  /\ headers' = [headers EXCEPT ![t] = NoHeaders]
  /\ mcp_request' = [mcp_request EXCEPT ![t] = NoRequest]
  /\ slept' = [slept EXCEPT ![t] = <<>>]
  /\ returned' = [returned EXCEPT ![t] = FALSE]
  /\ outcome' = [outcome EXCEPT ![t] = NoOutcome]
  /\ init_resp' = [init_resp EXCEPT ![t] = "none"]
  /\ notif_resp' = [notif_resp EXCEPT ![t] = "none"]
  /\ stale_rejected' = [stale_rejected EXCEPT ![t] = FALSE]
  /\ result' = [result EXCEPT ![t] = NoResult]
  /\ pc' = [pc EXCEPT ![t] = "acquire"]
  /\ UNCHANGED <<sessionVars, historyVars, session_id, sid>>
  /\ UNCHANGED ioVars

\* ------------------------------------------------ get_or_create_session_id
\* Variant: the cache is tested without taking the lock first.
AcquireAndCheckWithoutLock(t) ==
  /\ pc[t] = "acquire"
  /\ session_lock' = t
  /\ pc' = [pc EXCEPT ![t] =
              IF cached_session_id # NoSession THEN "return_cached" ELSE "initialize"]
  /\ UNCHANGED <<cached_session_id, callVars, historyVars, handshakeVars,
                 session_id, sid, result, returned>>
  /\ UNCHANGED ioVars

\* Variant: a caller that finds a session id cached does not take the lock
\* (the double-checked pattern).
AcquireAndCheckDoubleChecked(t) ==
  /\ pc[t] = "acquire"
  /\ IF cached_session_id # NoSession
     THEN /\ session_lock' = session_lock
          /\ pc' = [pc EXCEPT ![t] = "return_cached"]
     ELSE /\ session_lock = 0
          /\ session_lock' = t
          /\ pc' = [pc EXCEPT ![t] = "initialize"]
  /\ UNCHANGED <<cached_session_id, callVars, historyVars, handshakeVars,
                 session_id, sid, result, returned>>
  /\ UNCHANGED ioVars

\* Variant: every attempt makes a handshake, whether or not a session is cached.
AcquireAlwaysInitialize(t) ==
  /\ pc[t] = "acquire"
  /\ session_lock = 0
  /\ session_lock' = t
  /\ pc' = [pc EXCEPT ![t] = "initialize"]
  /\ UNCHANGED <<cached_session_id, callVars, historyVars, handshakeVars,
                 session_id, sid, result, returned>>
  /\ UNCHANGED ioVars

\* with _session_lock: if _cached_session_id:
\* (the lock is taken by every caller, whether or not a session is cached)
AcquireAndCheck(t) ==
  /\ pc[t] = "acquire"
  /\ session_lock = 0
  /\ session_lock' = t
  /\ pc' = [pc EXCEPT ![t] =
              IF cached_session_id # NoSession THEN "return_cached" ELSE "initialize"]
  /\ UNCHANGED <<cached_session_id, callVars, historyVars, handshakeVars,
                 session_id, sid, result, returned>>
  /\ UNCHANGED ioVars

\* get_or_create_session_id returns v: the with block releases the lock, and
\* the caller goes on (call_mcp_tool to its POST, /status to its answer).
ReturnSession(t, v) ==
  /\ session_lock' = 0
  /\ session_id' = [session_id EXCEPT ![t] = v]
  /\ returned' = [returned EXCEPT ![t] = TRUE]
  /\ sid' = [sid EXCEPT ![t] = NoSession]
  /\ IF mode[t] = "tool"
     THEN /\ pc' = [pc EXCEPT ![t] = "post"]
          /\ result' = result
     ELSE /\ pc' = [pc EXCEPT ![t] = "done"]
          /\ result' = [result EXCEPT ![t] = StatusResult]

\* Variant: a caller that already holds a session id keeps it.
ReturnCachedKeepingOwn(t) ==
  /\ pc[t] = "return_cached"
  /\ ReturnSession(t, IF session_id[t] # NoSession THEN session_id[t]
                                                   ELSE cached_session_id)
  /\ UNCHANGED <<cached_session_id, callVars, historyVars, handshakeVars>>
  /\ UNCHANGED ioVars

\* return _cached_session_id: the global is read again
ReturnCached(t) ==
  /\ pc[t] = "return_cached"
  /\ ReturnSession(t, cached_session_id)
  /\ UNCHANGED <<cached_session_id, callVars, historyVars, handshakeVars>>
  /\ UNCHANGED ioVars

\* sid = init_resp.headers.get("mcp-session-id"): the server hands out a new
\* identifier with every initialize it answers; the n-th request gets n.
FreshSessionId(n) == n

\* Variant: the status code of the answer is not looked at.
InitializeAcceptedAnyStatus(o) == o \in {"ok", "status"}

\* The handshake answer passes both checks (lines 79 and 90).
InitializeAccepted(o) == o = "ok"

\* Variant: a refused initialize returns without releasing the lock.
SendInitializeHoldingLock(t, o) ==
  /\ pc[t] = "initialize"
  /\ InitializeAccepted(o) \/ hsFailures < MaxHandshakeFailures
  /\ initSent' = initSent + 1
  /\ init_resp' = [init_resp EXCEPT ![t] = o]
  /\ IF InitializeAccepted(o)
     THEN /\ sid' = [sid EXCEPT ![t] = FreshSessionId(initSent')]
          /\ pc' = [pc EXCEPT ![t] = "notify"]
          /\ hsFailures' = hsFailures
          /\ UNCHANGED <<cached_session_id, session_lock, session_id, result, returned>>
     ELSE /\ session_id' = [session_id EXCEPT ![t] = NoSession]
          /\ returned' = [returned EXCEPT ![t] = TRUE]
          /\ sid' = [sid EXCEPT ![t] = NoSession]
          /\ IF mode[t] = "tool"
             THEN /\ pc' = [pc EXCEPT ![t] = "post"]
                  /\ result' = result
             ELSE /\ pc' = [pc EXCEPT ![t] = "done"]
                  /\ result' = [result EXCEPT ![t] = StatusResult]
          /\ hsFailures' = hsFailures + 1
          /\ UNCHANGED <<cached_session_id, session_lock>>
  /\ UNCHANGED <<callVars, notif_resp, stale_rejected, notifSent, readyOnce, clearedIds>>
  /\ UNCHANGED ioVars

\* init_resp = requests.post(url, json=init_payload, ...) and the checks of its
\* answer; every failure returns None.
SendInitialize(t, o) ==
  /\ pc[t] = "initialize"
  /\ InitializeAccepted(o) \/ hsFailures < MaxHandshakeFailures
  /\ initSent' = initSent + 1
  /\ init_resp' = [init_resp EXCEPT ![t] = o]
  /\ IF InitializeAccepted(o)
     THEN /\ sid' = [sid EXCEPT ![t] = FreshSessionId(initSent')]
          /\ pc' = [pc EXCEPT ![t] = "notify"]
          /\ hsFailures' = hsFailures
          /\ UNCHANGED <<cached_session_id, session_lock, session_id, result, returned>>
     ELSE /\ ReturnSession(t, NoSession)
          /\ hsFailures' = hsFailures + 1
          /\ UNCHANGED <<cached_session_id>>
  /\ UNCHANGED <<callVars, notif_resp, stale_rejected, notifSent, readyOnce, clearedIds>>
  /\ UNCHANGED ioVars

\* Variant: the session id is returned but never stored in the cache.
SendInitializedWithoutCaching(t, o) ==
  /\ pc[t] = "notify"
  /\ o # "exception" \/ hsFailures < MaxHandshakeFailures
  /\ notifSent' = notifSent + 1
  /\ notif_resp' = [notif_resp EXCEPT ![t] = o]
  /\ IF o = "exception"
     THEN /\ ReturnSession(t, NoSession)
          /\ hsFailures' = hsFailures + 1
          /\ UNCHANGED <<cached_session_id>>
     ELSE /\ pc' = [pc EXCEPT ![t] = "pause"]
          /\ hsFailures' = hsFailures
          /\ UNCHANGED <<cached_session_id, session_lock, session_id, sid, result,
                         returned>>
  /\ UNCHANGED <<callVars, init_resp, stale_rejected, initSent, readyOnce, clearedIds>>
  /\ UNCHANGED ioVars

\* Variant: a notification answered with a status outside 200..299 fails the
\* handshake.
SendInitializedRequiringAck(t, o) ==
  /\ pc[t] = "notify"
  /\ o = "2xx" \/ hsFailures < MaxHandshakeFailures
  /\ notifSent' = notifSent + 1
  /\ notif_resp' = [notif_resp EXCEPT ![t] = o]
  /\ IF o # "2xx"
     THEN /\ ReturnSession(t, NoSession)
          /\ hsFailures' = hsFailures + 1
          /\ UNCHANGED <<cached_session_id>>
     ELSE /\ cached_session_id' = sid[t]
          /\ pc' = [pc EXCEPT ![t] = "pause"]
          /\ hsFailures' = hsFailures
          /\ UNCHANGED <<session_lock, session_id, sid, result, returned>>
  /\ UNCHANGED <<callVars, init_resp, stale_rejected, initSent, readyOnce, clearedIds>>
  /\ UNCHANGED ioVars

\* notif_resp = requests.post(url, json=initialized_payload, ...): the session
\* id is cached whatever the status; an exception returns None.
SendInitialized(t, o) ==
  /\ pc[t] = "notify"
  /\ o # "exception" \/ hsFailures < MaxHandshakeFailures
  /\ notifSent' = notifSent + 1
  /\ notif_resp' = [notif_resp EXCEPT ![t] = o]
  /\ IF o = "exception"
     THEN /\ ReturnSession(t, NoSession)
          /\ hsFailures' = hsFailures + 1
          /\ UNCHANGED <<cached_session_id>>
     ELSE /\ cached_session_id' = sid[t]
          /\ pc' = [pc EXCEPT ![t] = "pause"]
          /\ hsFailures' = hsFailures
          /\ UNCHANGED <<session_lock, session_id, sid, result, returned>>
  /\ UNCHANGED <<callVars, init_resp, stale_rejected, initSent, readyOnce, clearedIds>>
  /\ UNCHANGED ioVars

\* time.sleep(0.25); return sid
Pause(t) ==
  /\ pc[t] = "pause"
  /\ ReturnSession(t, sid[t])
  /\ readyOnce' = TRUE
  /\ UNCHANGED <<cached_session_id, callVars, handshakeVars, initSent, notifSent,
                 hsFailures, clearedIds>>
  /\ UNCHANGED ioVars

\* ---------------------------------------------------- call_mcp_tool: attempt
\* The server refused the tools/call: an HTTP error status (raise_for_status)
\* or an "error" member in the answer.
Rejected(o) == o.kind \in {"httperror", "rpcerror"}

\* One attempt from requests.post to the sleep, the return or the end of the
\* loop body.
CallMcpToolAttempt(t, o) ==
  /\ pc[t] = "post"
  /\ toolSent' = [toolSent EXCEPT ![t] = @ + 1]
  /\ headers' = [headers EXCEPT ![t] = ToolHeaders(session_id[t])]
  /\ mcp_request' = [mcp_request EXCEPT ![t] = ToolRequest]
  /\ outcome' = [outcome EXCEPT ![t] = o]
  /\ last_error' = [last_error EXCEPT ![t] = LastErrorAfter(@, o)]
  /\ init_resp' = [init_resp EXCEPT ![t] = "none"]
  /\ notif_resp' = [notif_resp EXCEPT ![t] = "none"]
  /\ stale_rejected' =
       [stale_rejected EXCEPT ![t] = session_id[t] \in clearedIds /\ Rejected(o)]
  /\ LET step == AttemptStep(o, retry[t], max_retries[t], last_error[t]) IN
     /\ cached_session_id' = IF step.invalidate THEN NoSession ELSE cached_session_id
     /\ clearedIds' = IF step.invalidate /\ cached_session_id # NoSession
                      THEN clearedIds \cup {cached_session_id}
                      ELSE clearedIds
     /\ CASE step.act = "sleep" ->
               /\ pc' = [pc EXCEPT ![t] = "sleep"]
               /\ slept' = [slept EXCEPT ![t] = Append(@, BackoffMs(retry[t]))]
               /\ result' = result
          [] step.act = "return" ->
               /\ pc' = [pc EXCEPT ![t] = "done"]
               /\ slept' = slept
               /\ result' = [result EXCEPT ![t] = step.result]
          [] OTHER ->
               /\ pc' = [pc EXCEPT ![t] = "raised"]
               /\ slept' = slept
               /\ result' = result
  /\ UNCHANGED <<session_lock, mode, max_retries, retry, calls, session_id, sid,
                 returned, initSent, notifSent, hsFailures, readyOnce>>
  /\ UNCHANGED ioVars

\* continue: the next iteration of the loop
Continue(t) ==
  /\ pc[t] = "sleep"
  /\ retry' = [retry EXCEPT ![t] = @ + 1]
  /\ pc' = [pc EXCEPT ![t] = "acquire"]
  /\ headers' = [headers EXCEPT ![t] = NoHeaders]
  /\ UNCHANGED <<sessionVars, historyVars, handshakeVars, mode, max_retries, outcome,
                 last_error, toolSent, slept, calls, session_id, sid, result, returned,
                 mcp_request>>
  /\ UNCHANGED ioVars

\* The /reset-session endpoint: _cached_session_id = None, without the lock.
reset_session ==
  /\ cached_session_id' = NoSession
  /\ clearedIds' = IF cached_session_id # NoSession
                   THEN clearedIds \cup {cached_session_id}
                   ELSE clearedIds
  /\ UNCHANGED <<session_lock, pc, callVars, handshakeVars, session_id, sid, result,
                 returned, initSent, notifSent, hsFailures, readyOnce>>
  /\ UNCHANGED ioVars

\* ------------------------------------------------------- the decoder alone
\* mcp_response = response.json() (lines 184-187)
response_json ==
  /\ mcp_response.state = "pending"
  /\ LET parsed == json_loads(response_text) IN
     mcp_response' = IF parsed.ok
                     THEN Decoding("decoded", parsed.val)
                     ELSE Decoding("not_json", <<>>)
  /\ UNCHANGED <<response_text, adapterVars, normalizerVars>>

\* except json.JSONDecodeError: mcp_response = parse_sse_response(response.text)
\* and the test `if mcp_response is None` (lines 187-190)
sse_fallback ==
  /\ mcp_response.state = "not_json"
  /\ LET parsed == parse_sse_response(response_text) IN
     mcp_response' = Decoding(IF parsed = NoneValue THEN "failed" ELSE "decoded", parsed)
  /\ UNCHANGED <<response_text, adapterVars, normalizerVars>>

\* ---------------------------------------------------- the normalizer alone
\* return parse_mcp_response(content_text, tool_name) (line 232)
normalize ==
  /\ results = NotReturned
  /\ results' = parse_mcp_response(content_text, tool_name)
  /\ UNCHANGED <<content_text, tool_name, adapterVars, decoderVars>>

\* ---------------------------------------------------------- specifications
ThreadNext(t, retryArgs, toolOutcomes) ==
  \/ \E m \in retryArgs : StartCall(t, m)
  \/ status(t)
  \/ AcquireAndCheck(t)
  \/ ReturnCached(t)
  \/ \E o \in InitOutcomes : SendInitialize(t, o)
  \/ \E o \in NotifOutcomes : SendInitialized(t, o)
  \/ Pause(t)
  \/ \E o \in toolOutcomes : CallMcpToolAttempt(t, o)
  \/ Continue(t)

\* The threads of the application run together.
Next ==
  \/ \E t \in Threads : ThreadNext(t, ConcurrentRetryArgs, ConcurrentOutcomes)
  \/ reset_session

Spec == Init /\ [][Next]_vars

\* One thread alone serves its requests one after the other, with every
\* answer and every max_retries.
SeqNext == ThreadNext(1, RetryArgs, ToolOutcomes \cup ExtractedOutcomes)

SeqSpec == Init /\ [][SeqNext]_vars

\* The same, where the thread always takes its next step: every HTTP request
\* returns or times out, and every sleep ends.
FairSeqSpec == SeqSpec /\ WF_vars(SeqNext)

\* The answers drawn where the threads run together and each must go on: a
\* failure that is retried and an error that clears the session.
FairOutcomes ==
  {ToolOutcome("transport", 0, FALSE, TimeoutText, ""),
   ToolOutcome("rpcerror", InvalidParamsCode, TRUE, MsgInvalidParams, "")}

\* The steps of thread t there.
FairThreadNext(t) == ThreadNext(t, {MaxConcurrentRetries}, FairOutcomes)

FairNext ==
  \/ \E t \in Threads : FairThreadNext(t)
  \/ reset_session

\* The threads run together, and each thread always takes its next step once
\* it can: every HTTP request returns or times out, every sleep ends, and a
\* thread waiting for a lock that stays free acquires it.
FairSpec == Init /\ [][FairNext]_vars /\ \A t \in Threads : WF_vars(FairThreadNext(t))

\* The callers alone: the threads run together and nothing but their own
\* -32602 answers clears the session.
CallersNext == \E t \in Threads : FairThreadNext(t)

CallersSpec == Init /\ [][CallersNext]_vars

\* The decoder applied to one body, any of those drawn.
DecodeInit ==
  /\ InitAdapter
  /\ InitNormalizer
  /\ response_text \in Bodies
  /\ mcp_response = Decoding("pending", <<>>)

DecodeNext == response_json \/ sse_fallback

DecodeSpec == DecodeInit /\ [][DecodeNext]_vars

\* The normalizer applied to one content text for one tool, any of those drawn.
NormalizeInit ==
  /\ InitAdapter
  /\ InitDecoder
  /\ content_text \in ContentTexts
  /\ tool_name \in ToolNames
  /\ results = NotReturned

NormalizeNext == normalize

NormalizeSpec == NormalizeInit /\ [][NormalizeNext]_vars

\* ------------------------------------------------------------- properties
\* No handshake has failed and no cached session has been cleared.
Undisturbed == hsFailures = 0 /\ clearedIds = {}

\* The step in which thread t makes one attempt of call_mcp_tool.
AttemptBy(t) == pc[t] = "post" /\ pc'[t] # "post"

\* The answer is a protocol error with code -32602.
InvalidParams(o) == o.kind = "rpcerror" /\ o.code = -32602

\* The messages drawn that contain "initialization" in some letter case.
InitializationTexts == {m \in ErrorMessages : Contains(InitializationNeedle, Lower(m))}

\* C1: as long as no handshake fails and no session is cleared, the callers of
\* get_or_create_session_id (through call_mcp_tool or /status), however they
\* interleave, send one initialize and one notifications/initialized in all,
\* and every caller that has returned holds the same session id.
C1_HandshakeCollapsing ==
  Undisturbed =>
    /\ initSent <= 1
    /\ notifSent <= 1
    /\ \A t \in Threads :
         returned[t] =>
           /\ initSent = 1
           /\ notifSent = 1
           /\ session_id[t] # NoSession
           /\ \A u \in Threads : returned[u] => session_id[u] = session_id[t]

\* Every thread has made its first request, one of them through /status and
\* one through call_mcp_tool, and each has its session.
C1_Witness ==
  /\ Undisturbed
  /\ calls = NThreads
  /\ \A t \in Threads : returned[t]
  /\ \E t \in Threads : mode[t] = "status"
  /\ \E t \in Threads : mode[t] = "tool"
  /\ initSent = 1

\* C2, as stated: once a handshake has completed, no initialize is sent any
\* more, whatever the tool calls are answered.
C2_Original == [][readyOnce => initSent' = initSent]_vars

\* C2, amended: once a handshake has completed, no initialize is sent any more
\* as long as no answer has cleared the cached session.
C2_NoReinitialize == [][(readyOnce /\ clearedIds = {}) => initSent' = initSent]_vars

\* A third request has returned from a tool call with the one handshake's session.
C2_Witness ==
  /\ readyOnce
  /\ clearedIds = {}
  /\ calls >= 3
  /\ pc[1] = "done"
  /\ mode[1] = "tool"
  /\ toolSent[1] >= 1
  /\ initSent = 1

\* C3: no exception leaves call_mcp_tool, and a call that has returned has
\* returned a canonical result or an error object.
C3_NoExceptionEscapes ==
  \A t \in Threads :
    /\ pc[t] # "raised"
    /\ (pc[t] = "done" /\ mode[t] = "tool") => result[t].kind \in {"canonical", "error"}

\* A call whose handshake failed and whose last answer could not be indexed
\* has returned an error object.
C3_Witness ==
  /\ pc[1] = "done"
  /\ mode[1] = "tool"
  /\ outcome[1].kind = "malformed"
  /\ session_id[1] = NoSession
  /\ result[1] = ErrorResult(UnexpectedErrorPrefix \o NotAnObjectText)

\* C4, as stated: a call that has returned on a -32602 answer leaves the cache
\* unset, and a session id handed to a later attempt is never a cleared one.
C4_Original ==
  \A t \in Threads :
    /\ (pc[t] = "done" /\ InvalidParams(outcome[t])) => cached_session_id = NoSession
    /\ (pc[t] = "post" /\ session_id[t] # NoSession) => session_id[t] \notin clearedIds

\* C4, amended: a call that has returned on a -32602 answer whose message does
\* not mention initialization leaves the cache unset, the session it carried
\* being cleared; the session id handed to a later attempt is the cached one,
\* is never a cleared one, and an initialize was sent for it after the clearing.
C4_InvalidParamsClearsSession ==
  \A t \in Threads :
    /\ ( /\ pc[t] = "done"
         /\ InvalidParams(outcome[t])
         /\ ErrorMessage(outcome[t]) \notin InitializationTexts )
         => /\ cached_session_id = NoSession
            /\ session_id[t] # NoSession => session_id[t] \in clearedIds
    /\ (pc[t] = "post" /\ session_id[t] # NoSession)
         => /\ session_id[t] \notin clearedIds
            /\ session_id[t] = cached_session_id
            /\ Cardinality(clearedIds) < initSent

\* After a session was cleared, a later attempt holds a new session.
C4_Witness ==
  /\ clearedIds # {}
  /\ pc[1] = "post"
  /\ session_id[1] # NoSession
  /\ session_id[1] \notin clearedIds

\* What a non-retryable parameter error does in the attempt that receives it.
ParameterErrorReturn(t) ==
  /\ pc'[t] = "done"
  /\ slept'[t] = slept[t]
  /\ result'[t] =
       ErrorResult(ParameterErrorPrefix \o ErrorMessage(outcome'[t]) \o ParameterErrorSuffix)

\* C5, as stated: every -32602 answer ends the call in the attempt that
\* receives it, with a parameter-error result and without a sleep.
C5_Original ==
  [][\A t \in Threads :
       (AttemptBy(t) /\ InvalidParams(outcome'[t])) => ParameterErrorReturn(t)]_vars

\* C5, amended: a -32602 answer whose message does not mention initialization
\* ends the call in the attempt that receives it, with a parameter-error
\* result and without a sleep, however many attempts remain.
C5_InvalidParamsNotRetried ==
  [][\A t \in Threads :
       ( /\ AttemptBy(t)
         /\ InvalidParams(outcome'[t])
         /\ ErrorMessage(outcome'[t]) \notin InitializationTexts )
         => ParameterErrorReturn(t)]_vars

\* A first attempt of several has returned a parameter error.
C5_Witness ==
  /\ pc[1] = "done"
  /\ InvalidParams(outcome[1])
  /\ outcome[1].text = MsgInvalidParams
  /\ retry[1] = 0
  /\ max_retries[1] >= 3
  /\ toolSent[1] = 1
  /\ slept[1] = <<>>

\* A protocol error that is neither an initialization error nor -32602.
OtherError(o) ==
  /\ o.kind = "rpcerror"
  /\ o.code # -32602
  /\ ErrorMessage(o) \notin InitializationTexts

\* C6, as stated: such an error ends the call in the attempt that receives
\* it, the cache unchanged, and the error string returned is the server's message.
C6_Original ==
  [][\A t \in Threads :
       (AttemptBy(t) /\ OtherError(outcome'[t]) /\ outcome'[t].hasmsg)
         => /\ pc'[t] = "done"
            /\ slept'[t] = slept[t]
            /\ cached_session_id' = cached_session_id
            /\ result'[t] = ErrorResult(outcome'[t].text)]_vars

\* C6, amended: such an error ends the call in the attempt that receives it,
\* the cache unchanged, and the error string returned is "MCP Error: " followed
\* by the server's message ("Unknown error" when the error has none).
C6_OtherErrorSurfaced ==
  [][\A t \in Threads :
       (AttemptBy(t) /\ OtherError(outcome'[t]))
         => /\ pc'[t] = "done"
            /\ slept'[t] = slept[t]
            /\ cached_session_id' = cached_session_id
            /\ clearedIds' = clearedIds
            /\ result'[t] =
                 ErrorResult(McpErrorPrefix \o
                             (IF outcome'[t].hasmsg THEN outcome'[t].text
                                                    ELSE UnknownErrorText))]_vars

\* A first attempt of several has returned another protocol error, the session
\* still cached.
C6_Witness ==
  /\ pc[1] = "done"
  /\ OtherError(outcome[1])
  /\ outcome[1].hasmsg
  /\ retry[1] = 0
  /\ max_retries[1] >= 3
  /\ cached_session_id # NoSession
  /\ cached_session_id = session_id[1]

\* C7: while attempts remain, a transport failure, an empty body and an
\* undecodable body each lead to the backoff sleep, never to a return, and the
\* sleep is followed by the next attempt.
C7_FailuresRetried ==
  [][\A t \in Threads :
       /\ ( /\ AttemptBy(t)
            /\ outcome'[t].kind \in {"transport", "empty", "undecodable"}
            /\ retry[t] < max_retries[t] - 1 )
            => /\ pc'[t] = "sleep"
               /\ Len(slept'[t]) = Len(slept[t]) + 1
               /\ result'[t] = NoResult
       /\ (pc[t] = "sleep" /\ pc'[t] # "sleep")
            => /\ pc'[t] = "acquire"
               /\ retry'[t] = retry[t] + 1
               /\ retry'[t] < max_retries[t]]_vars

\* A second attempt is about to be sent after an undecodable body.
C7_Witness ==
  /\ pc[1] = "post"
  /\ retry[1] = 1
  /\ outcome[1].kind = "undecodable"
  /\ Len(slept[1]) = 1

\* C8: a protocol error whose message contains "initialization" in any letter
\* case is retried after a sleep while attempts remain, whatever its code, the
\* cache unchanged; on the last attempt the call returns the still-initializing
\* error.
C8_InitializationRetried ==
  [][\A t \in Threads :
       ( /\ AttemptBy(t)
         /\ outcome'[t].kind = "rpcerror"
         /\ ErrorMessage(outcome'[t]) \in InitializationTexts )
         => /\ cached_session_id' = cached_session_id
            /\ IF retry[t] < max_retries[t] - 1
               THEN /\ pc'[t] = "sleep"
                    /\ Len(slept'[t]) = Len(slept[t]) + 1
               ELSE /\ pc'[t] = "done"
                    /\ slept'[t] = slept[t]
                    /\ result'[t] = ErrorResult(StillInitializingText)]_vars

\* An upper-case initialization message is being slept on.
C8_Witness ==
  /\ pc[1] = "sleep"
  /\ outcome[1].kind = "rpcerror"
  /\ outcome[1].text = MsgUpperInit
  /\ MsgUpperInit \in InitializationTexts
  /\ ~Contains(InitializationNeedle, MsgUpperInit)

\* C9: a call sends at most max_retries tools/call requests (none when
\* max_retries is not positive), and a call that has begun returns.
C9_Terminates ==
  /\ [](\A t \in Threads :
          toolSent[t] <= (IF max_retries[t] > 0 THEN max_retries[t] ELSE 0))
  /\ \A t \in Threads : (pc[t] \notin {"idle", "done"}) ~> (pc[t] = "done")

\* A call with the default max_retries has returned after its third request.
C9_Witness ==
  /\ pc[1] = "done"
  /\ max_retries[1] = DefaultMaxRetries
  /\ toolSent[1] = 3

RetryableFailure(o) ==
  \/ o.kind \in {"transport", "httperror", "empty", "undecodable", "malformed"}
  \/ o.kind = "rpcerror" /\ ErrorMessage(o) \in InitializationTexts

\* The message that describes the failure o.
FailureText(o) ==
  CASE o.kind \in {"transport", "httperror"} -> ServerErrorPrefix \o o.text
    [] o.kind = "malformed" -> UnexpectedErrorPrefix \o o.text
    [] o.kind = "empty" -> EmptyResponseText
    [] o.kind = "undecodable" -> InvalidFormatText
    [] OTHER -> StillInitializingText

\* C11: a call whose max_retries attempts all ended in a retryable failure has
\* returned an error object whose message is that of the last attempt's
\* failure, whatever the earlier attempts failed with.
C11_LastFailureReported ==
  \A t \in Threads :
    ( /\ pc[t] = "done"
      /\ mode[t] = "tool"
      /\ max_retries[t] > 0
      /\ toolSent[t] = max_retries[t]
      /\ RetryableFailure(outcome[t]) )
      => /\ result[t] = ErrorResult(FailureText(outcome[t]))
         /\ result[t].error # <<>>

\* A call has returned after three failures, a timeout among the earlier ones
\* (last_error still holds its message) and an empty body the last: the message
\* returned is that of the empty body.
C11_Witness ==
  /\ pc[1] = "done"
  /\ toolSent[1] = 3
  /\ max_retries[1] = 3
  /\ outcome[1].kind = "empty"
  /\ last_error[1] = ServerErrorPrefix \o TimeoutText
  /\ result[1] = ErrorResult(EmptyResponseText)

\* C12: a caller of get_or_create_session_id that found a session id cached
\* (the test of line 51) returns a session id, not None, and sends neither an
\* initialize nor a notifications/initialized.
C12_CachedFastPath ==
  [][\A t \in Threads :
       (pc[t] = "return_cached" /\ pc'[t] # "return_cached")
         => /\ session_id'[t] # NoSession
            /\ initSent' = initSent
            /\ notifSent' = notifSent]_vars

\* Thread t reaches the with statement of get_or_create_session_id.
Arrives(t) == pc[t] # "acquire" /\ pc'[t] = "acquire"

\* Thread t is inside the with block of get_or_create_session_id.
InsideLock(t) == pc[t] \in {"return_cached", "initialize", "notify", "pause"}

\* C13, as stated: a caller that arrives while a session id is set does not
\* wait for the lock, so it never arrives to find the lock held.
C13_Original ==
  [][\A t \in Threads :
       (Arrives(t) /\ cached_session_id' # NoSession) => session_lock' = 0]_vars

\* C13, amended: the lock guards the whole of get_or_create_session_id. Every
\* caller takes it before the cache is tested, a session id being set or not,
\* and holds it until it returns; the thread inside the function is the one
\* holding the lock, and a caller waits only while another one is inside.
C13_LockGuardsEveryCaller ==
  /\ [](\A t \in Threads :
          /\ InsideLock(t) <=> session_lock = t
          /\ (pc[t] = "acquire" /\ session_lock # 0)
               => \E u \in Threads \ {t} : InsideLock(u))
  /\ [][\A t \in Threads :
          /\ (pc[t] = "acquire" /\ pc'[t] # "acquire")
               => session_lock = 0 /\ session_lock' = t
          /\ (InsideLock(t) /\ ~InsideLock(t)')
               => session_lock' = 0 /\ returned'[t]]_vars

\* A session id being set, a caller waits at the lock while another caller, on
\* the cached path, holds it.
C13_Witness ==
  /\ cached_session_id # NoSession
  /\ readyOnce
  /\ clearedIds = {}
  /\ pc[1] = "return_cached"
  /\ session_lock = 1
  /\ pc[2] = "acquire"
  /\ calls = 3

\* The initialize was answered without an mcp-session-id header, or with a
\* status other than 200.
RefusedInitialize(o) == o \in {"nosid", "status"}

\* C14: when the initialize is answered without the session header or with a
\* non-success status, get_or_create_session_id returns None in that step,
\* releasing the lock, sends no notifications/initialized, and the cached
\* session, unset before, is still unset.
C14_RefusedInitializeFails ==
  /\ [](\A t \in Threads :
          RefusedInitialize(init_resp[t])
            => /\ notif_resp[t] = "none"
               /\ returned[t]
               /\ session_id[t] = NoSession
               /\ pc[t] \notin {"notify", "pause"})
  /\ [][\A t \in Threads :
          (pc[t] = "initialize" /\ RefusedInitialize(init_resp'[t]))
            => /\ initSent' = initSent + 1
               /\ notifSent' = notifSent
               /\ session_id'[t] = NoSession
               /\ cached_session_id = NoSession
               /\ cached_session_id' = NoSession
               /\ session_lock' = 0]_vars

\* A handshake was refused with a status other than 200: the caller is about
\* to send its tools/call without a session, nothing cached, no notification sent.
C14_Witness ==
  /\ pc[1] = "post"
  /\ init_resp[1] = "status"
  /\ session_id[1] = NoSession
  /\ cached_session_id = NoSession
  /\ initSent = 1
  /\ notifSent = 0

\* The notifications/initialized was answered with an HTTP status.
Answered(o) == o \in {"2xx", "non2xx"}

\* C15: after an accepted initialize, when the notifications/initialized is
\* answered with any HTTP status, in 200..299 or not, the session id of the
\* initialize is cached and the caller goes to the pause, still holding the
\* lock; the pause over, that id is returned. Until then nobody else has been
\* handed the id.
C15_NotificationStatusTolerated ==
  /\ [](\A t \in Threads :
          /\ pc[t] \in {"notify", "pause"} => init_resp[t] = "ok" /\ sid[t] # NoSession
          /\ pc[t] = "pause"
               => /\ Answered(notif_resp[t])
                  /\ session_lock = t
                  /\ \A u \in Threads \ {t} : session_id[u] # sid[t])
  /\ [][\A t \in Threads :
          /\ (pc[t] = "notify" /\ Answered(notif_resp'[t]))
               => /\ cached_session_id' = sid[t]
                  /\ pc'[t] = "pause"
                  /\ returned'[t] = returned[t]
          /\ (pc[t] = "pause" /\ pc'[t] # "pause")
               => /\ session_id'[t] = sid[t]
                  /\ returned'[t]
                  /\ session_lock' = 0]_vars

\* A handshake whose notification was answered with a status outside 200..299
\* has returned its session id, which is the one cached.
C15_Witness ==
  /\ pc[1] = "post"
  /\ init_resp[1] = "ok"
  /\ notif_resp[1] = "non2xx"
  /\ session_id[1] # NoSession
  /\ cached_session_id = session_id[1]

\* The step in which get_or_create_session_id returns to thread t.
ReturnsTo(t) == InsideLock(t) /\ ~InsideLock(t)'

\* The answer resets the session cache (lines 217-220).
Invalidating(o) == InvalidParams(o) /\ ErrorMessage(o) \notin InitializationTexts

DecodeDone == mcp_response.state \in {"decoded", "failed"}

\* The body decodes to the value obj.
DecodesTo(obj) == mcp_response = Decoding("decoded", obj)

\* The round trip of the values in objs, and the failure on a body that is
\* not JSON and holds no "data: " at all.
RoundTrip(objs) ==
  DecodeDone =>
    /\ \A obj \in objs :
         /\ response_text = json_dumps(obj) => DecodesTo(obj)
         /\ response_text = SseBody(json_dumps(obj)) => DecodesTo(obj)
    /\ (~json_loads(response_text).ok /\ ~Contains(DataPrefix, response_text))
         => mcp_response.state = "failed"

\* C17: for every JSON value obj, the body json.dumps(obj) decodes to obj, the
\* body "data: " + json.dumps(obj) + "\n\n" decodes to obj, and a body that is
\* not JSON and holds no "data: " line makes the decoder fail.
C17_RoundTrip == RoundTrip(JsonValues)

\* C17, for the values other than null: the round trip holds.
C17_RoundTripOfNonNull == RoundTrip(JsonValues \ {JsonNull})

\* The lines of the body as split('\n') gives them, nothing stripped.
RawLines(body) == Split(body, "\n")

\* The text after "data: " on the first of the lines that begins with it.
FirstRemainder(lines) ==
  LET i == CHOOSE k \in 1..Len(lines) :
             /\ StartsWith(lines[k], DataPrefix)
             /\ \A j \in 1..(k - 1) : ~StartsWith(lines[j], DataPrefix)
  IN SubSeq(lines[i], Len(DataPrefix) + 1, Len(lines[i]))

\* For a body that is not JSON as a whole and has a line beginning with
\* "data: " among lines: the result is the JSON value of the first such
\* line's remainder, a failure when that remainder is not JSON (nothing is
\* said here of a remainder that is the text of null).
FirstDataLineDecides(lines) ==
  ( /\ DecodeDone
    /\ ~json_loads(response_text).ok
    /\ \E k \in 1..Len(lines) : StartsWith(lines[k], DataPrefix) )
    => LET parsed == json_loads(FirstRemainder(lines)) IN
       IF parsed.ok
       THEN parsed.val # JsonNull => DecodesTo(parsed.val)
       ELSE mcp_response.state = "failed"

\* C18: for a body that is not valid JSON as a whole, only the first line
\* beginning with "data: " counts: its remainder's JSON value is the result,
\* and the decoder fails when that remainder is not valid JSON, whatever a
\* later "data: " line holds.
C18_FirstDataLineOnly == FirstDataLineDecides(RawLines(response_text))

\* C18, for the lines stripped of the whitespace around them, as the loop of
\* parse_sse_response sees them: the first one beginning with "data: " decides.
C18_FirstStrippedDataLine == FirstDataLineDecides(StrippedLines(response_text))

\* The body "data: " + a JSON text cut short, then a second data line with the
\* text of 10, has been decoded: the decoder failed.
C18_Witness ==
  /\ response_text = TwoEventBody(TruncatedJsonText, json_dumps(JsonTen))
  /\ mcp_response.state = "failed"

\* parse_mcp_response has returned, and not an error object.
Normalized == results # NotReturned /\ "error" \notin DOMAIN results

\* The strategy that produced the result: the JSON format where the content
\* text is the JSON text of an object, the text format otherwise.
Strategy == IF json_loads(content_text).ok /\ IsDict(json_loads(content_text).val)
            THEN "structured"
            ELSE "legacy"

\* The required fields of the items of each list.
ItemFields(list) ==
  CASE list = "videos" ->
         {"title", "channelTitle", "viewCount", "likeCount", "publishedAt", "url",
          "description", "videoId", "thumbnail"}
    [] list = "channels" ->
         {"title", "subscriberCount", "videoCount", "viewCount", "publishedAt", "url",
          "description", "channelId", "thumbnail"}
    [] list = "playlists" ->
         {"title", "channelTitle", "videoCount", "publishedAt", "url", "description",
          "playlistId", "thumbnail"}

\* The lists of the result.
ListsOf(res) == DOMAIN res \cap {"videos", "channels", "playlists"}

\* C19: for every tool, a successful result has the same top-level keys
\* (query, total_results and the lists of the tool) and its items the same
\* field names, whichever strategy parse_mcp_response took.
C19_SameShapeByStrategy ==
  Normalized =>
    /\ DOMAIN results = {"query", "total_results"} \cup ToolLists(tool_name)
    /\ \A list \in ListsOf(results) : \A i \in 1..Len(results[list]) :
         DOMAIN results[list][i] = ItemFields(list)

\* C19, the part that holds: the items of a list have the same field names
\* under both strategies.
C19_ItemFieldNames ==
  Normalized =>
    \A list \in ListsOf(results) : \A i \in 1..Len(results[list]) :
      DOMAIN results[list][i] = ItemFields(list)

\* C19, what the text format returns: query without total_results for the
\* tools of one list, total_results without query for search_youtube_all.
C19_LegacyKeys ==
  (Normalized /\ Strategy = "legacy") =>
    DOMAIN results =
      ToolLists(tool_name)
        \cup (IF tool_name \in {"search_youtube_videos", "search_youtube_channels",
                                "search_youtube_playlists"}
              THEN {"query"}
              ELSE {"total_results"})

\* C20: every required field of every item of a result is present and is
\* not null, whatever the source item held.
C20_ItemFieldsNeverNull ==
  Normalized =>
    \A list \in ListsOf(results) : \A i \in 1..Len(results[list]) :
      \A field \in ItemFields(list) :
        /\ field \in DOMAIN results[list][i]
        /\ results[list][i][field] # JsonNull

\* The member of the payload a list of the result is built from.
SourceKey(list) ==
  CASE list = "videos" -> VideosKey
    [] list = "channels" -> ChannelsKey
    [] list = "playlists" -> PlaylistsKey

\* The members of the payload, where the content text is a JSON object.
Payload == Members(json_loads(content_text).val)

\* The result has the lists of the tool and no other, every list has one
\* item for each entry of the payload's list, in order, and a video carries
\* the entry's video_id, views and channel as videoId, viewCount and
\* channelTitle.
ListsMapped(members) ==
  /\ ListsOf(results) = ToolLists(tool_name)
  /\ \A list \in ListsOf(results) :
       Len(results[list]) = Len(SourceList(members, SourceKey(list)))
  /\ "videos" \in DOMAIN results =>
       \A i \in 1..Len(results["videos"]) :
         \A m \in 1..Len(Members(SourceList(members, VideosKey)[i])) :
           LET member == Members(SourceList(members, VideosKey)[i])[m]
               item == results["videos"][i]
           IN /\ member.key = VideoIdKey => item.videoId = member.value
              /\ member.key = ViewsKey => item.viewCount = member.value
              /\ member.key = ChannelKey => item.channelTitle = member.value

\* C21: a result of the JSON format keeps only the lists of the tool (one
\* list for the tools of one type, all three for search_youtube_all), and
\* each entry of a source list yields exactly one item, with video_id, views
\* and channel carried unchanged to videoId, viewCount and channelTitle.
C21_StructuredListsMapped ==
  (Normalized /\ Strategy = "structured") => ListsMapped(Payload)

\* A payload with all three lists, normalized for search_youtube_videos:
\* one video with the entry's values, and no channels or playlists.
C21_Witness ==
  /\ Normalized /\ Strategy = "structured"
  /\ tool_name = "search_youtube_videos"
  /\ KeyIn(Payload, ChannelsKey) /\ KeyIn(Payload, PlaylistsKey)
  /\ DOMAIN results = {"query", "total_results", "videos"}
  /\ Len(results["videos"]) = 1
  /\ results["videos"][1].videoId = StrValue(<<"a","1">>)
  /\ results["videos"][1].viewCount = StrValue(<<"5">>)
  /\ results["videos"][1].channelTitle = StrValue(ZooText)

\* The number of items of a list of the result, 0 for a list it has not.
Count(res, list) == IF list \in DOMAIN res THEN Len(res[list]) ELSE 0

\* The JSON text of an integer >= 0.
IsNatValue(v) == Len(v) > 0 /\ \A i \in 1..Len(v) : v[i] \in DigitChars

\* C22: in a result of the JSON format, total_results is the payload's
\* total_results where the payload has one and the sum of the lengths of the
\* result's lists where it has none, and it is always an integer >= 0.
C22_TotalResultsCounted ==
  (Normalized /\ Strategy = "structured") =>
    /\ results["total_results"] =
         IF KeyIn(Payload, TotalResultsKey)
         THEN Lookup(Payload, TotalResultsKey, <<>>)
         ELSE IntValue(Count(results, "videos") + Count(results, "channels")
                         + Count(results, "playlists"))
    /\ IsNatValue(results["total_results"])

\* C22, the first half: the payload's total_results is passed on as it is.
C22_PayloadTotalPassedOn ==
  (Normalized /\ Strategy = "structured" /\ KeyIn(Payload, TotalResultsKey)) =>
    results["total_results"] = Lookup(Payload, TotalResultsKey, <<>>)

\* C22, what the default is: the number of entries of the payload's three
\* lists, those the result leaves out included.
C22_DefaultCountsPayloadLists ==
  (Normalized /\ Strategy = "structured" /\ ~KeyIn(Payload, TotalResultsKey)) =>
    results["total_results"] =
      IntValue(Len(SourceList(Payload, VideosKey)) + Len(SourceList(Payload, ChannelsKey))
                 + Len(SourceList(Payload, PlaylistsKey)))

\* C22, the default alone: the sum of the lengths of the result's lists.
C22_DefaultCountsResultLists ==
  (Normalized /\ Strategy = "structured" /\ ~KeyIn(Payload, TotalResultsKey)) =>
    results["total_results"] =
      IntValue(Count(results, "videos") + Count(results, "channels")
                 + Count(results, "playlists"))

\* C22, the type alone: total_results is an integer >= 0.
C22_TotalIsNatural ==
  (Normalized /\ Strategy = "structured") => IsNatValue(results["total_results"])

\* The lines of the payload.
PayloadLines == Split(content_text, "\n")

\* The lines of the payload that read ERROR: <message>.
ErrorLines == {i \in 1..Len(PayloadLines) : StartsWith(PayloadLines[i], ErrorHeader)}

\* The message of such a line: what follows ERROR:, without the blanks
\* around it.
MessageOf(line) == Strip(SubSeq(line, Len(ErrorHeader) + 1, Len(line)))

\* The first of the lines that read ERROR: <message>.
FirstErrorLine == PayloadLines[CHOOSE i \in ErrorLines : \A j \in ErrorLines : i <= j]

\* C23: a payload with a line ERROR: <message> normalizes to
\* {"error": <message>}, whichever sections or items come before the line
\* and whichever the tool (of several such lines the first is meant).
C23_ErrorLineShortCircuits ==
  (results # NotReturned /\ ErrorLines # {}) =>
    results = ErrorDict(MessageOf(FirstErrorLine))

\* C23, the part that holds: the result is an error, and its message is
\* that of the first ERROR: line where the message holds no ERROR: itself.
C23_ErrorLineGivesError ==
  (results # NotReturned /\ ErrorLines # {}) =>
    /\ DOMAIN results = {"error"}
    /\ ~Contains(ErrorHeader, MessageOf(FirstErrorLine)) =>
         results = ErrorDict(MessageOf(FirstErrorLine))

\* C23, what the code returns: the line with every ERROR: taken out.
C23_EveryErrorMarkRemoved ==
  (results # NotReturned /\ ErrorLines # {}) =>
    results = ErrorDict(Strip(Replace(FirstErrorLine, ErrorHeader)))

\* The lines of the payload, each without the blanks around it.
StrippedLine(i) == Strip(PayloadLines[i])

\* A line that opens or closes a section.
IsSectionMarker(line) ==
  \E header \in {VideosHeader, ChannelsHeader, PlaylistsHeader, SummaryHeader, SuccessHeader} :
    StartsWith(line, header)

\* Line i lies inside a VIDEOS: section: the last section marker before it
\* is a VIDEOS: header.
InVideosSection(i) ==
  \E h \in 1..(i - 1) :
    /\ StartsWith(StrippedLine(h), VideosHeader)
    /\ \A k \in (h + 1)..(i - 1) : ~IsSectionMarker(StrippedLine(k))

\* The bullet lines of the VIDEOS: sections.
VideoBullets ==
  {i \in 1..Len(PayloadLines) : InVideosSection(i) /\ IsBullet(StrippedLine(i))}

\* The lines of the entry of bullet line i: those after it up to the next
\* bullet line or section marker.
EntryLines(i) ==
  {j \in (i + 1)..Len(PayloadLines) :
     \A k \in (i + 1)..j :
       ~IsBullet(StrippedLine(k)) /\ ~IsSectionMarker(StrippedLine(k))}

\* The first line of the entry of bullet line i that begins with label,
\* 0 where there is none.
FirstLabelled(i, label) ==
  LET hits == {j \in EntryLines(i) : StartsWith(StrippedLine(j), label)}
  IN IF hits = {} THEN 0 ELSE CHOOSE j \in hits : \A k \in hits : j <= k

\* What follows the label on a line.
ValueAfter(line, label) == Strip(SubSeq(line, Len(label) + 1, Len(line)))

\* The text of a bullet line: the line without its bullet.
BulletText(line) ==
  ValueAfter(line, IF StartsWith(line, Mojibake) THEN Mojibake ELSE <<Bullet>>)

\* The value of the v= parameter of a URL: from v= to the next & or the end.
VParameter(url) == SplitOn(SplitOn(url, VideoIdMark)[2], <<"&">>)[1]

\* The video of bullet line i: the one with its rank among the bullet lines.
VideoOf(i) == results["videos"][Cardinality({j \in VideoBullets : j <= i})]

\* The str a value stands for: its JSON text without the quotes.
TextOf(v) == SubSeq(v, 2, Len(v) - 1)

\* The text format gave a list of videos.
LegacyVideos ==
  Normalized /\ Strategy = "legacy" /\ "videos" \in DOMAIN results

\* The title of the video of every bullet line is the bullet text.
TitlesFromBullets ==
  \A i \in VideoBullets : VideoOf(i).title = StrValue(BulletText(StrippedLine(i)))

\* The channelTitle of the video of bullet line i is the value of the
\* Channel: line that follows it.
ChannelFromLine(i, j) ==
  j # 0 => VideoOf(i).channelTitle = StrValue(ValueAfter(StrippedLine(j), ChannelLabel))

\* The videoId of the video of bullet line i is the v= value of the URL:
\* line that follows it.
VideoIdFromUrl(i, j) ==
  (j # 0 /\ Contains(VideoIdMark, StrippedLine(j))) =>
    VideoOf(i).videoId = StrValue(VParameter(ValueAfter(StrippedLine(j), UrlLabel)))

\* C24: in the text format every bullet line of a VIDEOS: section yields one
\* video: as many videos as bullet lines, the title the bullet text, the
\* channelTitle the value of the following Channel: line, the videoId the
\* v= value of the following URL: line.
C24_BulletVideos ==
  LegacyVideos =>
    /\ Len(results["videos"]) = Cardinality(VideoBullets)
    /\ Len(results["videos"]) = Cardinality(VideoBullets) =>
         /\ TitlesFromBullets
         /\ \A i \in VideoBullets :
              /\ ChannelFromLine(i, FirstLabelled(i, ChannelLabel))
              /\ VideoIdFromUrl(i, FirstLabelled(i, UrlLabel))

\* C24, the part that holds: one video for each bullet line, with the
\* bullet text as title.
C24_OneVideoPerBullet ==
  LegacyVideos =>
    /\ Len(results["videos"]) = Cardinality(VideoBullets)
    /\ Len(results["videos"]) = Cardinality(VideoBullets) => TitlesFromBullets

\* C24, the videoId alone.
C24_VideoIdIsVParameter ==
  (LegacyVideos /\ Len(results["videos"]) = Cardinality(VideoBullets)) =>
    \A i \in VideoBullets : VideoIdFromUrl(i, FirstLabelled(i, UrlLabel))

\* C24, the channelTitle alone.
C24_ChannelTitleFromLine ==
  (LegacyVideos /\ Len(results["videos"]) = Cardinality(VideoBullets)) =>
    \A i \in VideoBullets : ChannelFromLine(i, FirstLabelled(i, ChannelLabel))

\* C24, what the code returns as videoId: all that follows the last v= of
\* the URL, further parameters included.
C24_VideoIdIsUrlTail ==
  (LegacyVideos /\ Len(results["videos"]) = Cardinality(VideoBullets)) =>
    \A i \in VideoBullets :
      Contains(VideoIdMark, TextOf(VideoOf(i).url)) =>
        VideoOf(i).videoId = StrValue(Last(SplitOn(TextOf(VideoOf(i).url), VideoIdMark)))

\* The lines of the payload that open a block with the label.
BlocksOf(label) == {i \in 1..Len(PayloadLines) : StartsWith(StrippedLine(i), label)}

\* The label of the blocks a list of the result is built from.
BlockLabel(list) ==
  CASE list = "videos" -> VideoBlockLabel
    [] list = "channels" -> ChannelBlockLabel
    [] list = "playlists" -> PlaylistBlockLabel

\* The payload is made of blocks.
MadeOfBlocks ==
  \E label \in {VideoBlockLabel, ChannelBlockLabel, PlaylistBlockLabel} : BlocksOf(label) # {}

\* C25: a payload of VIDEO: / CHANNEL: / PLAYLIST: blocks normalizes to one
\* item for each block of the tool's types, and the item of a VIDEO: block
\* carries the block's Views:, Likes:, Published:, URL: and Description:
\* values, the description without its trailing ellipsis.
C25_OneItemPerBlock ==
  (Normalized /\ Strategy = "legacy" /\ MadeOfBlocks) =>
    /\ \A list \in ListsOf(results) :
         Len(results[list]) = Cardinality(BlocksOf(BlockLabel(list)))
    /\ "videos" \in DOMAIN results =>
         \A i \in BlocksOf(VideoBlockLabel) :
           LET k == Cardinality({j \in BlocksOf(VideoBlockLabel) : j <= i})
           IN /\ k <= Len(results["videos"])
              /\ results["videos"][k] = parse_video_block(PayloadLines, i)

\* C25, what the code returns: no item at all for a payload of blocks
\* without a bullet line.
C25_BlocksYieldNothing ==
  (Normalized /\ Strategy = "legacy" /\ MadeOfBlocks
     /\ \A i \in 1..Len(PayloadLines) : ~IsBullet(StrippedLine(i))) =>
    \A list \in ListsOf(results) : results[list] = <<>>

\* Thread t is in the handshake of a session id it has obtained: between the
\* initialize response and the end of the pause.
InHandshake(t) == pc[t] \in {"notify", "pause"}

\* Thread t is about to send a tools/call that carries a session id.
CarriesSession(t) == pc[t] = "post" /\ session_id[t] # NoSession

\* Thread t sends the notifications/initialized of its handshake.
Notifies(t) == pc[t] = "notify" /\ pc'[t] # "notify"

\* C26: for every session id obtained, notifications/initialized is sent
\* exactly once, after the initialize response that returned the id and
\* before any tools/call carrying it, and no caller sends a tools/call with
\* the id before the pause after the handshake has ended. In states: the id
\* a tools/call is about to carry is in no handshake still under way, and
\* the ids under way differ. In steps: an initialize response hands out an
\* id not seen before, the notification is sent by the thread that obtained
\* the id, once, and only the pause hands the id to callers.
C26_InitializedOnceBeforeUse ==
  /\ [](\A t \in Threads :
          /\ CarriesSession(t) =>
               /\ session_id[t] <= initSent
               /\ \A u \in Threads : InHandshake(u) => sid[u] # session_id[t]
          /\ InHandshake(t) =>
               /\ sid[t] # NoSession
               /\ \A u \in Threads \ {t} : InHandshake(u) => sid[u] # sid[t])
  /\ [][/\ \A t \in Threads :
            /\ (~InHandshake(t) /\ InHandshake(t)') =>
                 /\ pc[t] = "initialize" /\ pc'[t] = "notify"
                 /\ initSent' = initSent + 1
                 /\ sid'[t] > initSent
                 /\ notifSent' = notifSent
            /\ Notifies(t) =>
                 /\ notifSent' = notifSent + 1
                 /\ pc'[t] = "pause" => sid'[t] = sid[t] /\ cached_session_id' = sid[t]
                 /\ pc'[t] # "pause" => session_id'[t] = NoSession
            /\ (pc[t] = "pause" /\ pc'[t] # "pause") =>
                 /\ notifSent' = notifSent
                 /\ session_id'[t] = sid[t]
        /\ notifSent' # notifSent => \E t \in Threads : Notifies(t)
        /\ (cached_session_id' # cached_session_id /\ cached_session_id' # NoSession) =>
             \E t \in Threads : Notifies(t)]_vars

\* Both threads are about to send a tools/call with the id of the one
\* handshake made, for which one notification was sent.
C26_Witness ==
  /\ CarriesSession(1) /\ CarriesSession(2)
  /\ session_id[1] = session_id[2]
  /\ initSent = 1
  /\ notifSent = 1
  /\ readyOnce

\* C27: request ids are monotonic: the tools/call request an attempt builds
\* carries an integer id greater than the ids of the requests built before
\* it, those of the earlier attempts of the same call among them (the
\* requests compared are the ones the calls under way have built).
C27_MonotonicRequestIds ==
  [][\A t \in Threads :
       AttemptBy(t) => \A u \in Threads : mcp_request'[t].id > mcp_request[u].id]_vars

\* C27, what the code does: every tools/call request carries the id 2.
C27_FixedRequestId ==
  \A t \in Threads :
    /\ toolSent[t] > 0 <=> mcp_request[t] # NoRequest
    /\ mcp_request[t] # NoRequest => mcp_request[t].id = ToolCallId

\* The handshake of the attempt of thread t has failed: the initialize was
\* refused or the notification raised.
HandshakeFailed(t) ==
  init_resp[t] \in InitOutcomes \ {"ok"} \/ notif_resp[t] = "exception"

\* C28: every tools/call carries the protocol-version header, and it carries
\* the mcp-session-id header exactly when get_or_create_session_id returned
\* an id in that attempt (the id returned being the header's value); when
\* the handshake failed the request is still sent, without session header.
C28_ToolCallHeaders ==
  /\ [](\A t \in Threads :
          headers[t] # NoHeaders =>
            /\ "mcp-protocol-version" \in DOMAIN headers[t]
            /\ headers[t]["mcp-protocol-version"] = PROTOCOL_VERSION
            /\ "mcp-session-id" \in DOMAIN headers[t] <=> session_id[t] # NoSession
            /\ "mcp-session-id" \in DOMAIN headers[t] =>
                 headers[t]["mcp-session-id"] = session_id[t])
  /\ [][\A t \in Threads :
          /\ (ReturnsTo(t) /\ mode[t] = "tool") =>
               /\ pc'[t] = "post"
               /\ HandshakeFailed(t)' => session_id'[t] = NoSession
          /\ AttemptBy(t) =>
               /\ toolSent'[t] = toolSent[t] + 1
               /\ headers'[t] # NoHeaders
               /\ mcp_request'[t].method = "tools/call"
               /\ HandshakeFailed(t) => "mcp-session-id" \notin DOMAIN headers'[t]]_vars

\* After a handshake that failed, the tools/call of the attempt was sent
\* with the protocol-version header and without a session header.
C28_Witness ==
  /\ hsFailures = 1
  /\ toolSent[1] = 1
  /\ pc[1] = "sleep"
  /\ initSent = 1
  /\ DOMAIN headers[1] = {"Content-Type", "Accept", "mcp-protocol-version"}

\* The same answer with another error code.
WithOtherCode(o) == [o EXCEPT !.code = OtherErrorCode]

\* C29: the classification tests the message before the code: a -32602
\* error whose message contains "initialization" is treated as any
\* not-yet-initialized error is. The attempt ends as it does for the same
\* message with another code: a sleep and a further attempt while attempts
\* remain, the still-initializing error on the last one, never the parameter
\* error; and the cached session id is not cleared.
C29_MessageTestedBeforeCode ==
  [][\A t \in Threads :
       ( /\ AttemptBy(t)
         /\ InvalidParams(outcome'[t])
         /\ outcome'[t].hasmsg
         /\ Contains(InitializationNeedle, outcome'[t].text) )
         => /\ cached_session_id' = cached_session_id
            /\ clearedIds' = clearedIds
            /\ AttemptStep(outcome'[t], retry[t], max_retries[t], last_error[t])
                 = AttemptStep(WithOtherCode(outcome'[t]), retry[t], max_retries[t],
                               last_error[t])
            /\ pc'[t] = (IF retry[t] < max_retries[t] - 1 THEN "sleep" ELSE "done")
            /\ pc'[t] = "done" => result'[t] = ErrorResult(StillInitializingText)]_vars

\* A -32602 answer that mentions initialization is being slept on, with the
\* session the request carried still cached.
C29_Witness ==
  /\ pc[1] = "sleep"
  /\ InvalidParams(outcome[1])
  /\ outcome[1].text = MsgBeforeInit
  /\ session_id[1] # NoSession
  /\ cached_session_id = session_id[1]
  /\ clearedIds = {}

\* The step is a handshake's: thread t, holding the lock, stores the id of
\* the status-200 initialize answer it has received.
CachedByHandshake(t) ==
  /\ Notifies(t)
  /\ session_lock = t
  /\ init_resp[t] = "ok"
  /\ sid[t] # NoSession
  /\ cached_session_id' = sid[t]

\* The step is an attempt of call_mcp_tool answered with a -32602 error.
ClearedByInvalidParams(t) ==
  /\ AttemptBy(t)
  /\ InvalidParams(outcome'[t])
  /\ cached_session_id' = NoSession

\* The step is the reset-session endpoint's: no thread moves.
ClearedByReset == pc' = pc /\ cached_session_id' = NoSession

\* The answers that leave the cache alone: transport failures, empty bodies,
\* decode failures, not-yet-initialized errors and other protocol errors.
LeavesCacheAlone(o) ==
  \/ o.kind \in {"transport", "httperror", "empty", "undecodable"}
  \/ o.kind = "rpcerror" /\ ErrorMessage(o) \in InitializationTexts
  \/ o.kind = "rpcerror" /\ o.code # InvalidParamsCode

C31_LockReleasedOnEveryExit ==
  /\ [][\A t \in Threads : ReturnsTo(t) => session_lock = t /\ session_lock' = 0]_vars
  /\ [](\A t \in Threads :
          (pc[t] = "acquire" /\ session_lock # 0) =>
            session_lock \in Threads \ {t} /\ InsideLock(session_lock))
  /\ \A t \in Threads : (pc[t] = "acquire") ~> returned[t]

\* A caller waits for the lock while the other is in a handshake after a
\* session was cleared and a handshake has failed.
C31_Witness ==
  /\ pc[1] = "acquire"
  /\ session_lock = 2
  /\ pc[2] = "notify"
  /\ hsFailures = 1
  /\ clearedIds # {}

\* C32: the invalidation on -32602 clears whichever session id is cached at
\* that moment, without comparing it with the id the refused request
\* carried; with concurrent callers a call that used session S1 clears a
\* newer session S2 that another caller's handshake has established.
C32_InvalidationClearsAnyCachedId ==
  [][\A t \in Threads :
       (AttemptBy(t) /\ Invalidating(outcome'[t])) =>
         /\ cached_session_id' = NoSession
         /\ clearedIds' = clearedIds \cup ({cached_session_id} \ {NoSession})
         /\ session_id'[t] = session_id[t]]_vars

\* Thread 1 has used session 1 in its one request and was refused with
\* -32602; session 2, which thread 2 has established in the call it is in
\* and has not yet used, is cleared, and no one but thread 1 can have
\* cleared it.
C32_Witness ==
  /\ pc[1] = "done"
  /\ Invalidating(outcome[1])
  /\ toolSent[1] = 1
  /\ session_id[1] = 1
  /\ pc[2] = "post"
  /\ init_resp[2] = "ok"
  /\ toolSent[2] = 0
  /\ session_id[2] = 2
  /\ clearedIds = {1, 2}
  /\ cached_session_id = NoSession


\* Thread t sends an initialize request in this step.
SendsInitialize(t) == pc[t] = "initialize" /\ pc'[t] # "initialize"

\* C33: every attempt of call_mcp_tool goes through get_or_create_session_id,
\* and one call sends at most max_retries initialize requests: its attempts
\* are numbered below max_retries, an attempt starts at the lock by the start
\* of the call or by the next iteration of the loop, it reaches the handshake
\* only from the lock, and it sends at most one initialize, which is the only
\* way the count of initialize requests grows. An attempt after the first
\* sends one only when the attempt before got no session (its handshake
\* failed) or the session the attempt before used has been cleared since;
\* the call does not clear it itself and go on, since its own invalidation
\* ends the call.
C33_InitializePerAttempt ==
  /\ [](\A t \in Threads :
          (mode[t] = "tool" /\ pc[t] # "idle") => retry[t] < max_retries[t])
  /\ [][/\ initSent' # initSent =>
            /\ initSent' = initSent + 1
            /\ \E t \in Threads :
                 /\ SendsInitialize(t)
                 /\ init_resp[t] = "none" /\ init_resp'[t] # "none"
                 /\ retry'[t] = retry[t]
         /\ \A t \in Threads :
            /\ (pc[t] # "initialize" /\ pc'[t] = "initialize") => pc[t] = "acquire"
            /\ (pc[t] # "acquire" /\ pc'[t] = "acquire") =>
                 \/ retry'[t] = 0 /\ pc[t] \in {"idle", "done", "raised"}
                 \/ retry'[t] = retry[t] + 1 /\ pc[t] = "sleep"
            /\ (pc[t] = "post" /\ pc'[t] # "post") => returned[t]
            /\ (SendsInitialize(t) /\ mode[t] = "tool" /\ retry[t] >= 1) =>
                 /\ init_resp'[t] # "none"
                 /\ session_id[t] = NoSession \/ session_id[t] \in clearedIds
            /\ (AttemptBy(t) /\ Invalidating(outcome'[t])) => pc'[t] = "done"]_vars

\* The only call made sends its second initialize, in its second and last
\* attempt, after the session its first attempt established was cleared.
C33_Witness ==
  /\ calls = 1 /\ mode[1] = "tool" /\ max_retries[1] = 2 /\ retry[1] = 1
  /\ pc[1] = "notify" /\ init_resp[1] = "ok"
  /\ initSent = 2 /\ session_id[1] = 1 /\ clearedIds = {1} /\ hsFailures = 0


\* The tools/call of this step is answered with a status outside 200..299.
HttpErrorAttempt(t) == AttemptBy(t) /\ outcome'[t].kind = "httperror"

\* The text of the HTTPError that raise_for_status raised in the attempt.
HttpFailure(t) == ServerErrorPrefix \o outcome'[t].text

\* C34: an attempt whose tools/call is answered with an HTTP error status
\* changes neither the cached session id nor the set of cleared ids, and
\* records the failure in last_error; while attempts remain it sleeps the
\* backoff of the attempt and goes on, and on the last attempt the call returns
\* an error whose text names the HTTP failure. With this caller alone, the
\* attempt that follows is given the session id the failed one carried, and
\* no handshake is made for it.
C34_HttpErrorRetriedAsTransport ==
  [][\A t \in Threads :
       /\ HttpErrorAttempt(t) =>
            /\ cached_session_id' = cached_session_id
            /\ clearedIds' = clearedIds
            /\ last_error'[t] = HttpFailure(t)
            /\ IF retry[t] + 1 < max_retries[t]
               THEN /\ pc'[t] = "sleep"
                    /\ slept'[t] = Append(slept[t], BackoffMs(retry[t]))
                    /\ result'[t] = result[t]
               ELSE /\ pc'[t] = "done"
                    /\ result'[t] = ErrorResult(HttpFailure(t))
                    /\ Contains(outcome'[t].text, result'[t].error)
       /\ ( /\ ReturnsTo(t) /\ mode[t] = "tool" /\ retry[t] >= 1
            /\ outcome[t].kind = "httperror" /\ session_id[t] # NoSession ) =>
            /\ pc[t] = "return_cached"
            /\ session_id'[t] = session_id[t]
            /\ initSent' = initSent /\ notifSent' = notifSent]_vars

\* The first attempt of a call, sent with session 1, was answered with an
\* HTTP error status; the call slept 500 ms and its second attempt is about
\* to send session 1 again, which is still the one cached.
C34_Witness ==
  /\ pc[1] = "post" /\ retry[1] = 1 /\ toolSent[1] = 1
  /\ outcome[1].kind = "httperror" /\ last_error[1] = ServerErrorPrefix \o Http500Text
  /\ slept[1] = <<BackoffMs(0)>>
  /\ session_id[1] = 1 /\ cached_session_id = 1 /\ initSent = 1


\* Bodies that decode to nothing: neither JSON nor SSE, or an empty value.
NothingBodies ==
  {<<>>, NotJsonText, TruncatedJsonText, EventLine, SseBody(NotJsonText),
   JsonNull, JsonEmptyObject, JsonEmptyArray, JsonZero, SseBody(JsonEmptyObject)}

\* Bodies with an "error" member.
ErrorBodies == {JsonErrorObject, SseBody(JsonErrorObject)}

\* What lines 79 and 90 make of each body drawn when it comes with status
\* 200 and a session header, and of a good body with each status drawn.
AnswerByBody == [b \in InitBodies |-> InitializeAnswer(200, SidHeader, b)]

AnswerByStatus == [c \in InitStatusCodes |-> InitializeAnswer(c, SidHeader, InitResultBody)]

\* The initialize was refused for its body or for its status.
RefusedForBody(o) == o \in {"badbody", "rpcerror", "status"}

\* C35: with status 200 and a session header, a body that decodes to nothing
\* is answered "badbody" and a body with an "error" member "rpcerror", while a
\* body with a result passes; with a success status other than 200 the same
\* good body is refused. A handshake refused in one of these ways returns None
\* in the step of the initialize, releasing the lock: the notification count
\* does not move, the cache, unset before, stays unset, and for the rest of
\* the attempt the thread has sent no notifications/initialized. The answers
\* the handshake draws are those the code makes of the status codes, headers
\* and bodies drawn.
C35_BadBodyFailsHandshake ==
  /\ InitAnswerKinds = InitOutcomes
  /\ [](/\ \A b \in NothingBodies : AnswerByBody[b] = "badbody"
        /\ \A b \in ErrorBodies : AnswerByBody[b] = "rpcerror"
        /\ AnswerByBody[InitResultBody] = "ok"
        /\ AnswerByStatus[200] = "ok" /\ AnswerByStatus[202] = "status"
        /\ \A t \in Threads :
             RefusedForBody(init_resp[t]) =>
               /\ notif_resp[t] = "none"
               /\ sid[t] = NoSession
               /\ session_id[t] = NoSession
               /\ pc[t] \notin {"initialize", "notify", "pause"})
  /\ [][\A t \in Threads :
          (SendsInitialize(t) /\ RefusedForBody(init_resp'[t])) =>
            /\ ReturnsTo(t)
            /\ session_lock' = 0
            /\ session_id'[t] = NoSession
            /\ initSent' = initSent + 1
            /\ notifSent' = notifSent
            /\ hsFailures' = hsFailures + 1
            /\ cached_session_id = NoSession /\ cached_session_id' = NoSession]_vars

\* An initialize answered with status 200, a session header and a body that
\* decodes to nothing: the caller is about to send its tools/call without a
\* session, nothing is cached and no notification has been sent.
C35_Witness ==
  /\ pc[1] = "post" /\ init_resp[1] = "badbody" /\ notif_resp[1] = "none"
  /\ session_id[1] = NoSession /\ cached_session_id = NoSession
  /\ session_lock = 0 /\ initSent = 1 /\ notifSent = 0 /\ hsFailures = 1


\* The outcome of an attempt answered with the decoded response r.
OutcomeOf ==
  [r \in ResultResponses |->
     ToolOutcome(ExtractResult(r).kind, 0, FALSE, ExtractResult(r).text, "")]

\* The answers drawn whose "result" is absent or an object, and whose
\* content is missing, empty or no list.
ContentlessResults ==
  {NoResultResponse, EmptyResultResponse, JsonResultObject, NullContentResponse,
   TextContentResponse, DictContentResponse}

\* The same, with the answer whose "result" is null, which has no content
\* either.
ContentlessResponses == ContentlessResults \cup {NullResultResponse}

\* The attempt of this step returns the "No content" error: the call is over,
\* nothing was slept, and the cache is as it was.
ReturnsNoContent(t) ==
  /\ pc'[t] = "done"
  /\ result'[t] = ErrorResult(NoContentText)
  /\ toolSent'[t] = toolSent[t] + 1
  /\ slept'[t] = slept[t]
  /\ retry'[t] = retry[t]
  /\ cached_session_id' = cached_session_id
  /\ clearedIds' = clearedIds

\* C36 (as stated): every attempt answered with a decoded response without
\* protocol error whose result.content is missing, empty or not a list returns
\* the "No content" error in that attempt.
C36_NoContentReturnedAtOnce ==
  [][\A t \in Threads : \A r \in ContentlessResponses :
       (AttemptBy(t) /\ outcome'[t] = OutcomeOf[r]) => ReturnsNoContent(t)]_vars

\* C36 (amended): when the "result" member is absent or an object, a content
\* that is missing, empty or not a list makes the attempt return the
\* "No content" error at once, whatever attempts remain, with the cache
\* unchanged. When "result" is null the .get of line 226 raises, and the
\* attempt is handled as an unexpected error: it sleeps and goes on while
\* attempts remain, and the last attempt returns "Unexpected error: " with
\* the text of the exception.
C36_NoContentUnderResultObject ==
  /\ [](\A r \in ContentlessResults : OutcomeOf[r] = ToolOutcome("nocontent", 0, FALSE, <<>>, ""))
  /\ [](OutcomeOf[NullResultResponse] =
          ToolOutcome("malformed", 0, FALSE, AttributeErrorText(JsonNull), ""))
  /\ [][\A t \in Threads :
          /\ (AttemptBy(t) /\ outcome'[t].kind = "nocontent") => ReturnsNoContent(t)
          /\ (AttemptBy(t) /\ outcome'[t] = OutcomeOf[NullResultResponse]) =>
               /\ cached_session_id' = cached_session_id
               /\ last_error'[t] = UnexpectedErrorPrefix \o AttributeErrorText(JsonNull)
               /\ IF retry[t] + 1 < max_retries[t]
                  THEN pc'[t] = "sleep" /\ slept'[t] = Append(slept[t], BackoffMs(retry[t]))
                  ELSE pc'[t] = "done" /\ result'[t] = ErrorResult(last_error'[t])]_vars

\* The first of three attempts was answered without content: the call has
\* returned the "No content" error without sleeping, and the session it used
\* is still cached.
C36_Witness ==
  /\ pc[1] = "done" /\ outcome[1].kind = "nocontent"
  /\ max_retries[1] = 3 /\ toolSent[1] = 1 /\ slept[1] = <<>>
  /\ result[1] = ErrorResult(NoContentText)
  /\ session_id[1] = 1 /\ cached_session_id = 1


\* The content text is a JSON object none of whose videos, channels and
\* playlists members is an array.
WithoutArrays ==
  /\ Strategy = "structured"
  /\ \A key \in ListKeys : ~(KeyIn(Payload, key) /\ IsList(Lookup(Payload, key, <<>>)))

\* The result is a successful one whose lists, those of the tool, are empty.
EmptySuccess ==
  /\ "error" \notin DOMAIN results
  /\ DOMAIN results = {"query", "total_results"} \cup ToolLists(tool_name)
  /\ \A list \in ListsOf(results) : results[list] = <<>>

\* C37 (as stated): an object without the three arrays, the server's
\* {"error": ...} object included, normalizes to a successful result with
\* empty lists and total_results 0.
C37_ArraylessObjectCountsZero ==
  (results # NotReturned /\ WithoutArrays) =>
    EmptySuccess /\ results["total_results"] = IntValue(0)

\* C37 (amended): such an object normalizes to a successful result with
\* empty lists, never to an error result; its total_results is the payload's
\* own total_results member where it has one, and 0 where it has none. The
\* {"error": ...} object of the server's tools has none, and no query: it
\* gives query "" and total_results 0.
C37_ArraylessObjectIsEmptySuccess ==
  /\ (results # NotReturned /\ WithoutArrays) =>
       /\ EmptySuccess
       /\ results["total_results"] = Lookup(Payload, TotalResultsKey, IntValue(0))
       /\ results["query"] = Lookup(Payload, QueryKey, EmptyStr)
  /\ (results # NotReturned /\ content_text \in ServerErrors) =>
       /\ WithoutArrays
       /\ results["total_results"] = IntValue(0)
       /\ results["query"] = EmptyStr

\* The server's answer for a missing API key, normalized for the all-types
\* tool: three empty lists, no query, total_results 0 and no error.
C37_Witness ==
  /\ content_text = ServerError(ApiKeyErrorText)
  /\ tool_name = "search_youtube_all"
  /\ results = ResultDict({"query", "total_results", "videos", "channels", "playlists"},
                          EmptyStr, IntValue(0), <<>>, <<>>, <<>>)

\* The entries of the payload's list the result's list was made from.
SourceEntriesOf(list) == SourceList(Payload, SourceKey(list))

\* The canonical field holds the value of the entry's member, where the
\* entry has that member.
FieldKept(item, field, entry, key) ==
  KeyIn(Members(entry), key) => item[field] = Lookup(Members(entry), key, <<>>)

\* C38: in a result of the JSON format, every channel carries the total_views
\* and created of its entry as viewCount and publishedAt, and every playlist
\* the video_count and created of its entry as videoCount and publishedAt.
C38_ServerFieldsKept ==
  (Normalized /\ Strategy = "structured") =>
    /\ "channels" \in DOMAIN results =>
         \A i \in 1..Len(results["channels"]) :
           /\ FieldKept(results["channels"][i], "viewCount",
                        SourceEntriesOf("channels")[i], TotalViewsKey)
           /\ FieldKept(results["channels"][i], "publishedAt",
                        SourceEntriesOf("channels")[i], CreatedKey)
    /\ "playlists" \in DOMAIN results =>
         \A i \in 1..Len(results["playlists"]) :
           /\ FieldKept(results["playlists"][i], "videoCount",
                        SourceEntriesOf("playlists")[i], VideoCountKey)
           /\ FieldKept(results["playlists"][i], "publishedAt",
                        SourceEntriesOf("playlists")[i], CreatedKey)

\* C38, what the code does with the server's items: the channel's viewCount
\* and publishedAt and the playlist's videoCount and publishedAt are the
\* defaults, whatever the server sent; the members whose names the adapter
\* reads (subscribers, videos, channel, title) are kept.
C38_ServerFieldsDefaulted ==
  (Normalized /\ content_text \in ServerResults) =>
    /\ "channels" \in DOMAIN results =>
         \A i \in 1..Len(results["channels"]) :
           /\ Len(results["channels"]) = Len(SourceEntriesOf("channels"))
           /\ results["channels"][i].viewCount = ZeroStr
           /\ results["channels"][i].publishedAt = EmptyStr
           /\ FieldKept(results["channels"][i], "subscriberCount",
                        SourceEntriesOf("channels")[i], SubscribersKey)
           /\ FieldKept(results["channels"][i], "videoCount",
                        SourceEntriesOf("channels")[i], VideosKey)
    /\ "playlists" \in DOMAIN results =>
         \A i \in 1..Len(results["playlists"]) :
           /\ Len(results["playlists"]) = Len(SourceEntriesOf("playlists"))
           /\ results["playlists"][i].videoCount = ZeroStr
           /\ results["playlists"][i].publishedAt = EmptyStr
           /\ FieldKept(results["playlists"][i], "channelTitle",
                        SourceEntriesOf("playlists")[i], ChannelKey)

====
